---------------------------- MODULE Spec2Model ----------------------------
(***************************************************************************)
(* Tactical planning board (tactical-suite).  Every client is one          *)
(* single-threaded React component holding local slices of one shared      *)
(* room document; a user gesture runs a mutation function to completion    *)
(* (local update, ref mirror, remote write issued), and an asynchronous    *)
(* snapshot callback replaces the local slices with the store's document.  *)
(*                                                                         *)
(* One handler = one action.  The ref mirrors (boardRef, tokensRef, ...)   *)
(* are re-synchronised with the state by the effects of lines 2089-2098    *)
(* after every render, and every mutation function that reads a ref also   *)
(* assigns it, so at handler boundaries ref = state; one variable per      *)
(* slice stands for both.                                                  *)
(*                                                                         *)
(* The remote store follows its interface contract: a write merges the     *)
(* named top-level fields into the room document and leaves the other      *)
(* fields alone; writes of one client land in the order they were issued.  *)
(***************************************************************************)
EXTENDS Integers, Sequences, FiniteSets, TLC

\* ------------------------------------------------------------------------
\* Universe of the model
\* ------------------------------------------------------------------------
Clients == {"A", "B"}
Entities == {"p1", "p2", "p3"}
NewGroupIds == {"n1"}
NewMapIds == {"sub1"}
NewPoiIds == {"poi1"}
Labels == {"L0", "L1"}
Texts == {"", "a", "b"}
Images == {"", "img"}
DrawIds == {"e1", "e2"}
DrawTypes == {"path", "line"}
NoColor == "none"
Colors == {"3b82f6"}
None == "none"
NoMap == "absent"
XY == {[x |-> 0, y |-> 0], [x |-> 2, y |-> 2]}

\* bounds
MaxInflight == 1
MaxOps == 3
MaxEdits == 3

Role == {"admin", "commander", "viewer"}

\* currentPlayer.id of each client
SelfOf == [c \in Clients |-> IF c = "A" THEN "p1" ELSE "p2"]

DEFAULT_GROUPS ==
  << [id |-> "unassigned", label |-> "Unzugeteilt", isSpawn |-> FALSE, color |-> NoColor],
     [id |-> "g1",         label |-> "Marines",     isSpawn |-> FALSE, color |-> NoColor],
     [id |-> "g2",         label |-> "Air",         isSpawn |-> FALSE, color |-> NoColor],
     [id |-> "g3",         label |-> "Subradar",    isSpawn |-> FALSE, color |-> NoColor],
     [id |-> "spawn1",     label |-> "Spawn",       isSpawn |-> TRUE,  color |-> NoColor] >>

\* coordinates are counted in halves of the image size: 0, 1 (= 0.5), 2 (= 1.0);
\* -1 stands for an absent coordinate
DEFAULT_MAPS == << [id |-> "main", label |-> "Pyro System", image |-> "img", x |-> -1, y |-> -1] >>

GroupIds == {DEFAULT_GROUPS[i].id : i \in 1..Len(DEFAULT_GROUPS)} \cup NewGroupIds
MapCtxIds == {"main"} \cup NewMapIds \cup NewPoiIds

VARIABLES
  role,          \* role of each client (useState<Role>)
  board,         \* [groups, columns] of each client
  groupRoles,    \* groupId -> [leader, deputy]
  tokens,        \* sequence of [groupId, x, y, mapId]
  orderMarkers,  \* sequence of [groupId, x, y, mapId]
  aliveState,    \* entity -> "alive" | "dead" (partial)
  spawnState,    \* entity -> groupId (partial)
  maps,          \* sequence of MapEntry
  pois,          \* sequence of POI
  activeMapId,   \* map context shown by the client
  notesText,     \* notes text of each client
  notesTimer,    \* pending notes debounce timeouts: the texts they captured
  drawings,      \* map context id -> sequence of drawing elements (partial)
  drawTimer,     \* pending drawings debounce timeouts: the DrawingsMaps they captured
  store,         \* the room document: field name -> value (no field = no document)
  outbox,        \* writes issued by a client that have not yet landed
  calls,         \* the call that issued each write of the outbox
  snapPending,   \* a change notification is waiting to be handled by the client
  ops,           \* number of user gestures handled so far
  burst,         \* observation of the current notes debounce window
  drawTool,      \* annotation tool selected by each client (useState<DrawTool>)
  zoomMap,       \* ZoomableMap state of each client: drags, panning, offset
  drawLayer,     \* DrawingLayer refs of each client: pen path, line start
  armed,         \* TokenPlacerPanel state of each client
  pointer        \* where the pointer of each client went down, "up" when released

vars == << role, board, groupRoles, tokens, orderMarkers, aliveState, spawnState,
           maps, pois, activeMapId, notesText, notesTimer, drawings, drawTimer,
           store, outbox, calls, snapPending, ops, burst,
           drawTool, zoomMap, drawLayer, armed, pointer >>

\* every variable of the board and the room but the gesture counter
pvars == << role, board, groupRoles, tokens, orderMarkers, aliveState, spawnState,
            maps, pois, activeMapId, notesText, notesTimer, drawings, drawTimer,
            store, outbox, calls, snapPending, burst >>

\* the state of the map surface: BoardApp's drawTool, ZoomableMap,
\* DrawingLayer and TokenPlacerPanel
viewVars == << drawTool, zoomMap, drawLayer, armed, pointer >>

NoDoc == << >>
EmptyFn == << >>

\* ------------------------------------------------------------------------
\* Array helpers (JavaScript array methods used by the handlers)
\* ------------------------------------------------------------------------
Range(s) == {s[i] : i \in 1..Len(s)}

\* Array.prototype.indexOf / findIndex, 1-based; 0 stands for -1
IndexOf(s, x) ==
  IF x \in Range(s) THEN CHOOSE i \in 1..Len(s) : s[i] = x /\ \A j \in 1..(i-1) : s[j] # x
  ELSE 0

\* Array.prototype.filter((y) => y !== x)
Without(s, x) == SelectSeq(s, LAMBDA y : y # x)

\* number of occurrences of x in s
Count(s, x) == Cardinality({i \in 1..Len(s) : s[i] = x})

\* arrayMove of @dnd-kit/sortable: take the element out of position oi and
\* insert it so that it ends up at position ni
arrayMove(s, oi, ni) ==
  LET rest == SubSeq(s, 1, oi - 1) \o SubSeq(s, oi + 1, Len(s))
  IN  SubSeq(rest, 1, ni - 1) \o << s[oi] >> \o SubSeq(rest, ni, Len(rest))

\* [...a].filter over a list: the entries of list that are not in the set
NotIn(list, all) == SelectSeq(list, LAMBDA id : id \notin all)

canWrite(c) == role[c] \in {"admin", "commander"}
isAdmin(c) == role[c] = "admin"

\* ------------------------------------------------------------------------
\* Board helpers
\* ------------------------------------------------------------------------
groupIdsOf(b) == {b.groups[i].id : i \in 1..Len(b.groups)}

\* Object.values(columns).flat() as a set
allIds(cols) == UNION {Range(cols[g]) : g \in DOMAIN cols}

\* columns[g] ?? []
Col(cols, g) == IF g \in DOMAIN cols THEN cols[g] ELSE << >>

\* findContainer: the container holding pid.  The code returns the first one
\* in key order; the model keeps every candidate and the caller picks one.
findContainer(cols, pid) == {g \in DOMAIN cols : pid \in Range(cols[g])}

\* { ...cols, [g]: v }
Put(f, k, v) == [x \in DOMAIN f \cup {k} |-> IF x = k THEN v ELSE f[x]]

\* delete f[k]
Del(f, k) == [x \in DOMAIN f \ {k} |-> f[x]]

\* groups.findIndex((g) => g.id === id)
GroupIndex(groups, id) ==
  IF \E i \in 1..Len(groups) : groups[i].id = id
  THEN CHOOSE i \in 1..Len(groups) : groups[i].id = id /\ \A j \in 1..(i-1) : groups[j].id # id
  ELSE 0

safeBoard(data, groups) ==
  [groups |-> groups,
   columns |-> [g \in {groups[i].id : i \in 1..Len(groups)} |->
                  IF "columns" \in DOMAIN data /\ g \in DOMAIN data.columns
                  THEN data.columns[g] ELSE << >>]]

normalizeToken(t) == [t EXCEPT !.mapId = IF t.mapId = NoMap THEN "main" ELSE t.mapId]

MapSeq(s, Op(_)) == [i \in 1..Len(s) |-> Op(s[i])]

\* ------------------------------------------------------------------------
\* Remote store
\* ------------------------------------------------------------------------
\* setDoc(ref, fields, { merge: true }) / updateDoc(ref, fields)
MergeWrite(doc, w) ==
  [f \in DOMAIN doc \cup DOMAIN w |-> IF f \in DOMAIN w THEN w[f] ELSE doc[f]]

\* the payload of pushAll
\* pushAll, sending the stored notes instead of notesRef.current
pushAllDoc_storedNotes(c, nb, nt, na, ns, nm, np, ngr) ==
  [groups |-> nb.groups, columns |-> nb.columns, tokens |-> nt,
   orderMarkers |-> orderMarkers[c],
   aliveState |-> na, spawnState |-> ns, maps |-> nm, pois |-> np,
   notesText |-> IF "notesText" \in DOMAIN store THEN store.notesText ELSE "",
   groupRoles |-> ngr,
   drawings |-> drawings[c]]

pushAllDoc(c, nb, nt, na, ns, nm, np, ngr) ==
  [groups |-> nb.groups, columns |-> nb.columns, tokens |-> nt,
   orderMarkers |-> orderMarkers[c],
   aliveState |-> na, spawnState |-> ns, maps |-> nm, pois |-> np,
   notesText |-> notesText[c],
   groupRoles |-> ngr,
   drawings |-> drawings[c]]

pushTokensOnlyDoc(nt) == [tokens |-> nt]
pushOrderMarkersOnlyDoc(nm) == [orderMarkers |-> nm]

\* the writes a handler issues are appended to the client's outbox
\* the call a write is first issued with: pushTokensOnly and
\* pushOrderMarkersOnly try updateDoc, every other write is a setDoc
callOf(w) ==
  IF DOMAIN w \in {{"tokens"}, {"orderMarkers"}} THEN "try updateDoc" ELSE "setDoc"

Send(c, ws) ==
  /\ Len(outbox[c]) < MaxInflight
  /\ outbox' = [outbox EXCEPT ![c] = @ \o ws]
  /\ calls' = [calls EXCEPT ![c] = @ \o [i \in 1..Len(ws) |-> callOf(ws[i])]]

\* a handler that returns before touching anything
NoOp == UNCHANGED pvars

\* a step that is not a user gesture: a write landing, a snapshot, a timer
Background(A) == A /\ UNCHANGED << ops, viewVars >>

\* a user gesture outside the map surface, counted
Gesture(A) == ops < MaxOps /\ A /\ ops' = ops + 1 /\ UNCHANGED viewVars

\* ------------------------------------------------------------------------
\* Initial state: useState initialisers (lines 2021-2046), no room document
\* ------------------------------------------------------------------------
InitBoard ==
  [groups |-> DEFAULT_GROUPS,
   columns |-> [g \in {DEFAULT_GROUPS[i].id : i \in 1..Len(DEFAULT_GROUPS)} |-> << >>]]

NoBurst == [edits |-> 0, written |-> << >>, last |-> ""]

\* an absent position (a null ref)
NoPos == [x |-> -1, y |-> -1]

\* ZoomableMap: useState(null) for the three drags, useState(false) for
\* panning, useRef(null) for the last positions, offset {x: 0, y: 0}
NoZoomMap ==
  [tokenDrag |-> None, markerDrag |-> None, orderMarkerDrag |-> None, panning |-> FALSE,
   lastTokenPos |-> NoPos, lastMarkerPos |-> NoPos, lastOrderMarkerPos |-> NoPos,
   offset |-> [x |-> 0, y |-> 0],
   panStart |-> [x |-> 0, y |-> 0, ox |-> 0, oy |-> 0]]

\* DrawingLayer: drawing = useRef(false), pathPoints = useRef([]),
\* lineStart = useRef(null), lastPos = useRef(null)
NoDrawLayer ==
  [drawing |-> FALSE, pathPoints |-> << >>, lineStart |-> NoPos, lastPos |-> NoPos]

\* TokenPlacerPanel: useState(null)
Disarmed == [gId |-> None, mode |-> None]

InitView ==
  /\ drawTool = [c \in Clients |-> "pointer"]
  /\ zoomMap = [c \in Clients |-> NoZoomMap]
  /\ drawLayer = [c \in Clients |-> NoDrawLayer]
  /\ armed = [c \in Clients |-> Disarmed]
  /\ pointer = [c \in Clients |-> "up"]

InitWith(r) ==
  /\ role = r
  /\ board = [c \in Clients |-> InitBoard]
  /\ groupRoles = [c \in Clients |-> EmptyFn]
  /\ tokens = [c \in Clients |-> << >>]
  /\ orderMarkers = [c \in Clients |-> << >>]
  /\ aliveState = [c \in Clients |-> EmptyFn]
  /\ spawnState = [c \in Clients |-> EmptyFn]
  /\ maps = [c \in Clients |-> DEFAULT_MAPS]
  /\ pois = [c \in Clients |-> << >>]
  /\ activeMapId = [c \in Clients |-> "main"]
  /\ notesText = [c \in Clients |-> ""]
  /\ notesTimer = [c \in Clients |-> << >>]
  /\ drawings = [c \in Clients |-> EmptyFn]
  /\ drawTimer = [c \in Clients |-> << >>]
  /\ store = NoDoc
  /\ outbox = [c \in Clients |-> << >>]
  /\ calls = [c \in Clients |-> << >>]
  /\ snapPending = [c \in Clients |-> FALSE]
  /\ ops = 0
  /\ burst = [c \in Clients |-> NoBurst]
  /\ InitView

\* ------------------------------------------------------------------------
\* Synchronisation engine
\* ------------------------------------------------------------------------
\* the oldest in-flight write of client c lands at the store; every
\* subscriber (the writer included) is notified
Deliver(c) ==
  /\ outbox[c] # << >>
  /\ store' = MergeWrite(store, Head(outbox[c]))
  /\ outbox' = [outbox EXCEPT ![c] = Tail(@)]
  /\ calls' = [calls EXCEPT ![c] = Tail(@)]
  /\ snapPending' = [d \in Clients |-> TRUE]
  /\ UNCHANGED << role, board, groupRoles, tokens, orderMarkers, aliveState, spawnState,
                  maps, pois, activeMapId, notesText, notesTimer, drawings, drawTimer, burst >>

\* data.f ?? dflt
FieldOr(data, f, dflt) == IF f \in DOMAIN data THEN data[f] ELSE dflt

\* Array.isArray(data.groups) && data.groups.length > 0 ? data.groups : DEFAULT_GROUPS
\* Array.isArray(v): every value of the model is an array but NotArray, which
\* stands for any other value a document may hold in the field
NotArray == << [id |-> "not-an-array"] >>
isArray(v) == v # NotArray

\* a handler that takes the groups of the document as they are
loadedGroups_asIs(data) ==
  IF "groups" \in DOMAIN data THEN data.groups ELSE DEFAULT_GROUPS

loadedGroups(data) ==
  IF "groups" \in DOMAIN data /\ isArray(data.groups) /\ Len(data.groups) > 0
  THEN data.groups ELSE DEFAULT_GROUPS

incomingTokens(data) ==
  IF "tokens" \in DOMAIN data THEN MapSeq(data.tokens, normalizeToken) ELSE << >>

incomingOrderMarkers(data) ==
  IF "orderMarkers" \in DOMAIN data THEN MapSeq(data.orderMarkers, normalizeToken) ELSE << >>

\* a snapshot handler that keeps the optimistic local slices while a write
\* of the client is still in flight
onSnapshot_keepOptimistic(c) ==
  /\ snapPending[c]
  /\ snapPending' = [snapPending EXCEPT ![c] = FALSE]
  /\ IF store = NoDoc \/ outbox[c] # << >>
     THEN UNCHANGED << board, tokens, orderMarkers, aliveState, spawnState, maps, pois,
                       notesText, groupRoles, drawings >>
     ELSE /\ board' = [board EXCEPT ![c] = safeBoard(store, loadedGroups(store))]
          /\ tokens' = [tokens EXCEPT ![c] = incomingTokens(store)]
          /\ orderMarkers' = [orderMarkers EXCEPT ![c] = incomingOrderMarkers(store)]
          /\ aliveState' = [aliveState EXCEPT ![c] = FieldOr(store, "aliveState", EmptyFn)]
          /\ spawnState' = [spawnState EXCEPT ![c] = FieldOr(store, "spawnState", EmptyFn)]
          /\ maps' = [maps EXCEPT ![c] =
                        IF "maps" \in DOMAIN store /\ Len(store.maps) > 0 THEN store.maps ELSE @]
          /\ pois' = [pois EXCEPT ![c] = FieldOr(store, "pois", << >>)]
          /\ notesText' = [notesText EXCEPT ![c] = FieldOr(store, "notesText", @)]
          /\ groupRoles' = [groupRoles EXCEPT ![c] = FieldOr(store, "groupRoles", @)]
          /\ drawings' = [drawings EXCEPT ![c] = FieldOr(store, "drawings", @)]
  /\ UNCHANGED << role, activeMapId, notesTimer, drawTimer, store, outbox, calls, burst >>

\* the onSnapshot callback of client c, handed the store's current document
onSnapshot(c) ==
  /\ snapPending[c]
  /\ snapPending' = [snapPending EXCEPT ![c] = FALSE]
  /\ IF store = NoDoc
     THEN UNCHANGED << board, tokens, orderMarkers, aliveState, spawnState, maps, pois,
                       notesText, groupRoles, drawings >>
     ELSE /\ board' = [board EXCEPT ![c] = safeBoard(store, loadedGroups(store))]
          /\ tokens' = [tokens EXCEPT ![c] = incomingTokens(store)]
          /\ orderMarkers' = [orderMarkers EXCEPT ![c] = incomingOrderMarkers(store)]
          /\ aliveState' = [aliveState EXCEPT ![c] = FieldOr(store, "aliveState", EmptyFn)]
          /\ spawnState' = [spawnState EXCEPT ![c] = FieldOr(store, "spawnState", EmptyFn)]
          /\ maps' = [maps EXCEPT ![c] =
                        IF "maps" \in DOMAIN store /\ Len(store.maps) > 0 THEN store.maps ELSE @]
          /\ pois' = [pois EXCEPT ![c] = FieldOr(store, "pois", << >>)]
          /\ notesText' = [notesText EXCEPT ![c] = FieldOr(store, "notesText", @)]
          /\ groupRoles' = [groupRoles EXCEPT ![c] = FieldOr(store, "groupRoles", @)]
          /\ drawings' = [drawings EXCEPT ![c] = FieldOr(store, "drawings", @)]
  /\ UNCHANGED << role, activeMapId, notesTimer, drawTimer, store, outbox, calls, burst >>

\* ------------------------------------------------------------------------
\* Roster merge
\* ------------------------------------------------------------------------
\* a merge that appends the whole roster, whatever the board holds
mergeRoster_all(prev, list) ==
  [prev EXCEPT !.columns = Put(prev.columns, "unassigned", Col(prev.columns, "unassigned") \o list)]

\* the updater handed to setBoard by applyPlayerList
mergeRoster(prev, list) ==
  LET toAdd == NotIn(list, allIds(prev.columns))
  IN  IF toAdd = << >> THEN prev
      ELSE [prev EXCEPT !.columns =
              Put(prev.columns, "unassigned", Col(prev.columns, "unassigned") \o toAdd)]

applyPlayerList(c, list) ==
      /\ board' = [board EXCEPT ![c] = mergeRoster(board[c], list)]
      /\ UNCHANGED << role, groupRoles, tokens, orderMarkers, aliveState, spawnState,
                      maps, pois, activeMapId, notesText, notesTimer, drawings, drawTimer,
                      store, outbox, calls, snapPending, burst >>

\* ------------------------------------------------------------------------
\* Shorthands for the frame of an action
\* ------------------------------------------------------------------------
uiVars == << role, activeMapId >>
noteVars == << notesText, notesTimer, burst >>
drawVars == << drawings, drawTimer >>
netVars == << store, snapPending >>

\* pushAll called with the current refs except for the named board
pushBoard(c, nb) ==
  pushAllDoc(c, nb, tokens[c], aliveState[c], spawnState[c], maps[c], pois[c], groupRoles[c])

\* pushAll called with the current refs except for the named maps and pois
pushMaps(c, nm, np) ==
  pushAllDoc(c, board[c], tokens[c], aliveState[c], spawnState[c], nm, np, groupRoles[c])

\* ------------------------------------------------------------------------
\* Group roles and colour
\* ------------------------------------------------------------------------
NoRoles == [leader |-> None, deputy |-> None]

\* setGroupRole that leaves the other slot of the group as it is
setGroupRole_keepOther(c, gId, pid, r) ==
  IF ~canWrite(c) THEN NoOp
  ELSE LET prev == groupRoles[c]
           gr0 == IF gId \in DOMAIN prev THEN prev[gId] ELSE NoRoles
           gr == CASE r = None ->
                        [leader |-> IF gr0.leader = pid THEN None ELSE gr0.leader,
                         deputy |-> IF gr0.deputy = pid THEN None ELSE gr0.deputy]
                   [] r = "leader" -> [gr0 EXCEPT !.leader = pid]
                   [] r = "deputy" -> [gr0 EXCEPT !.deputy = pid]
           next == Put(prev, gId, gr)
       IN  /\ groupRoles' = [groupRoles EXCEPT ![c] = next]
           /\ Send(c, << pushAllDoc(c, board[c], tokens[c], aliveState[c], spawnState[c],
                                    maps[c], pois[c], next) >>)
           /\ UNCHANGED << uiVars, board, tokens, orderMarkers, aliveState, spawnState,
                           maps, pois, noteVars, drawVars, netVars >>

setGroupRole(c, gId, pid, r) ==
  IF ~canWrite(c) THEN NoOp
  ELSE LET prev == groupRoles[c]
           gr0 == IF gId \in DOMAIN prev THEN prev[gId] ELSE NoRoles
           gr == CASE r = None ->
                        [leader |-> IF gr0.leader = pid THEN None ELSE gr0.leader,
                         deputy |-> IF gr0.deputy = pid THEN None ELSE gr0.deputy]
                   [] r = "leader" ->
                        [leader |-> pid,
                         deputy |-> IF gr0.deputy = pid THEN None ELSE gr0.deputy]
                   [] r = "deputy" ->
                        [leader |-> IF gr0.leader = pid THEN None ELSE gr0.leader,
                         deputy |-> pid]
           next == Put(prev, gId, gr)
       IN  /\ groupRoles' = [groupRoles EXCEPT ![c] = next]
           /\ Send(c, << pushAllDoc(c, board[c], tokens[c], aliveState[c], spawnState[c],
                                    maps[c], pois[c], next) >>)
           /\ UNCHANGED << uiVars, board, tokens, orderMarkers, aliveState, spawnState,
                           maps, pois, noteVars, drawVars, netVars >>

\* the frame of a handler that replaces the board and calls pushAll
BoardWrite(c, next) ==
  /\ board' = [board EXCEPT ![c] = next]
  /\ Send(c, << pushBoard(c, next) >>)
  /\ UNCHANGED << uiVars, groupRoles, tokens, orderMarkers, aliveState, spawnState,
                  maps, pois, noteVars, drawVars, netVars >>

setGroupColor(c, id, hex) ==
  IF ~canWrite(c) THEN NoOp
  ELSE LET prev == board[c]
       IN  BoardWrite(c, [prev EXCEPT !.groups =
                            MapSeq(prev.groups, LAMBDA g : IF g.id = id THEN [g EXCEPT !.color = hex] ELSE g)])

\* ------------------------------------------------------------------------
\* Groups
\* ------------------------------------------------------------------------
\* uid(): an id no group of any client, and no document, has used
FreshGroupIds ==
  NewGroupIds \ ( UNION {groupIdsOf(board[c]) : c \in Clients}
                  \cup UNION {DOMAIN board[c].columns : c \in Clients}
                  \cup (IF "groups" \in DOMAIN store
                        THEN {store.groups[i].id : i \in 1..Len(store.groups)} ELSE {})
                  \cup UNION {UNION {IF "groups" \in DOMAIN outbox[c][k]
                                     THEN {outbox[c][k].groups[i].id : i \in 1..Len(outbox[c][k].groups)}
                                     ELSE {} : k \in 1..Len(outbox[c])} : c \in Clients} )

\* an addGroup that appends the group and forgets its column
addGroup_noColumn(c, isSpawn) ==
  IF ~canWrite(c) THEN NoOp
  ELSE \E id \in FreshGroupIds :
         LET g == [id |-> id, label |-> IF isSpawn THEN "Spawn" ELSE "Neue Gruppe",
                   isSpawn |-> isSpawn, color |-> NoColor]
             prev == board[c]
         IN  BoardWrite(c, [groups |-> Append(prev.groups, g), columns |-> prev.columns])

addGroup(c, isSpawn) ==
  IF ~canWrite(c) THEN NoOp
  ELSE \E id \in FreshGroupIds :
         LET g == [id |-> id, label |-> IF isSpawn THEN "Spawn" ELSE "Neue Gruppe",
                   isSpawn |-> isSpawn, color |-> NoColor]
             prev == board[c]
         IN  BoardWrite(c, [groups |-> Append(prev.groups, g),
                            columns |-> Put(prev.columns, id, << >>)])

renameGroup(c, id, label) ==
  IF ~canWrite(c) THEN NoOp
  ELSE LET prev == board[c]
       IN  BoardWrite(c, [prev EXCEPT !.groups =
                            MapSeq(prev.groups, LAMBDA g : IF g.id = id THEN [g EXCEPT !.label = label] ELSE g)])

\* a deletion that leaves the tokens of the group on the maps
deleteGroup_keepTokens(c, id) ==
  IF ~canWrite(c) \/ id = "unassigned" THEN NoOp
  ELSE LET prev == board[c]
           moved == Col(prev.columns, id)
           newCols0 == Del(prev.columns, id)
           newCols == Put(newCols0, "unassigned", Col(newCols0, "unassigned") \o moved)
           next == [groups |-> SelectSeq(prev.groups, LAMBDA g : g.id # id), columns |-> newCols]
           nt == tokens[c]
           ngr == Del(groupRoles[c], id)
       IN  /\ board' = [board EXCEPT ![c] = next]
           /\ tokens' = [tokens EXCEPT ![c] = nt]
           /\ groupRoles' = [groupRoles EXCEPT ![c] = ngr]
           /\ Send(c, << pushTokensOnlyDoc(nt),
                         pushAllDoc(c, next, nt, aliveState[c], spawnState[c], maps[c], pois[c], ngr) >>)
           /\ UNCHANGED << uiVars, orderMarkers, aliveState, spawnState, maps, pois,
                           noteVars, drawVars, netVars >>

deleteGroup(c, id) ==
  IF ~canWrite(c) \/ id = "unassigned" THEN NoOp
  ELSE LET prev == board[c]
           moved == Col(prev.columns, id)
           newCols0 == Del(prev.columns, id)
           newCols == Put(newCols0, "unassigned", Col(newCols0, "unassigned") \o moved)
           next == [groups |-> SelectSeq(prev.groups, LAMBDA g : g.id # id), columns |-> newCols]
           nt == SelectSeq(tokens[c], LAMBDA t : t.groupId # id)
           ngr == Del(groupRoles[c], id)
       IN  /\ board' = [board EXCEPT ![c] = next]
           /\ tokens' = [tokens EXCEPT ![c] = nt]
           /\ groupRoles' = [groupRoles EXCEPT ![c] = ngr]
           /\ Send(c, << pushTokensOnlyDoc(nt),
                         pushAllDoc(c, next, nt, aliveState[c], spawnState[c], maps[c], pois[c], ngr) >>)
           /\ UNCHANGED << uiVars, orderMarkers, aliveState, spawnState, maps, pois,
                           noteVars, drawVars, netVars >>

clearGroup(c, id) ==
  IF ~canWrite(c) THEN NoOp
  ELSE LET prev == board[c]
           moved == Col(prev.columns, id)
           cols1 == Put(prev.columns, "unassigned", Col(prev.columns, "unassigned") \o moved)
       IN  BoardWrite(c, [prev EXCEPT !.columns = Put(cols1, id, << >>)])

\* ------------------------------------------------------------------------
\* Alive / dead and spawn preference
\* ------------------------------------------------------------------------
\* Array.prototype.find over groups: the first group satisfying P, or None
FindGroup(groups, P(_)) ==
  IF \E i \in 1..Len(groups) : P(groups[i])
  THEN groups[CHOOSE i \in 1..Len(groups) : P(groups[i]) /\ \A j \in 1..(i-1) : ~P(groups[j])].id
  ELSE None

\* a toggle that sends a revived entity back to the unassigned column
toggleAlive_return(c, playerId) ==
  IF playerId # SelfOf[c] /\ ~canWrite(c) THEN NoOp
  ELSE LET prev == aliveState[c]
           wasDead == playerId \in DOMAIN prev /\ prev[playerId] = "dead"
           next == Put(prev, playerId, IF wasDead THEN "alive" ELSE "dead")
           b == board[c]
           targetSpawnId == IF playerId \in DOMAIN spawnState[c] THEN spawnState[c][playerId] ELSE ""
           targetSpawn == IF wasDead THEN "unassigned"
                          ELSE IF targetSpawnId # ""
                          THEN FindGroup(b.groups, LAMBDA g : g.id = targetSpawnId)
                          ELSE FindGroup(b.groups, LAMBDA g : g.isSpawn)
           filtered == [g \in DOMAIN b.columns |-> Without(b.columns[g], playerId)]
           newCols == Put(filtered, targetSpawn, << playerId >> \o Col(filtered, targetSpawn))
           nextBoard == IF targetSpawn # None THEN [b EXCEPT !.columns = newCols] ELSE b
       IN  /\ aliveState' = [aliveState EXCEPT ![c] = next]
           /\ board' = [board EXCEPT ![c] = nextBoard]
           /\ Send(c, << pushAllDoc(c, nextBoard, tokens[c], next, spawnState[c],
                                    maps[c], pois[c], groupRoles[c]) >>)
           /\ UNCHANGED << uiVars, groupRoles, tokens, orderMarkers, spawnState, maps, pois,
                           noteVars, drawVars, netVars >>

\* a toggleAlive without the exception for the caller's own entity
toggleAlive_writersOnly(c, playerId) ==
  IF ~canWrite(c) THEN NoOp
  ELSE LET prev == aliveState[c]
           wasDead == playerId \in DOMAIN prev /\ prev[playerId] = "dead"
           next == Put(prev, playerId, IF wasDead THEN "alive" ELSE "dead")
           b == board[c]
           targetSpawnId == IF playerId \in DOMAIN spawnState[c] THEN spawnState[c][playerId] ELSE ""
           targetSpawn == IF targetSpawnId # ""
                          THEN FindGroup(b.groups, LAMBDA g : g.id = targetSpawnId)
                          ELSE FindGroup(b.groups, LAMBDA g : g.isSpawn)
           filtered == [g \in DOMAIN b.columns |-> Without(b.columns[g], playerId)]
           newCols == Put(filtered, targetSpawn, << playerId >> \o Col(filtered, targetSpawn))
           nextBoard == IF ~wasDead /\ targetSpawn # None THEN [b EXCEPT !.columns = newCols] ELSE b
       IN  /\ aliveState' = [aliveState EXCEPT ![c] = next]
           /\ board' = [board EXCEPT ![c] = nextBoard]
           /\ Send(c, << pushAllDoc(c, nextBoard, tokens[c], next, spawnState[c],
                                    maps[c], pois[c], groupRoles[c]) >>)
           /\ UNCHANGED << uiVars, groupRoles, tokens, orderMarkers, spawnState, maps, pois,
                           noteVars, drawVars, netVars >>

\* a toggleAlive that falls back to the first spawn group when the
\* preferred group is not on the board
toggleAlive_fallback(c, playerId) ==
  IF playerId # SelfOf[c] /\ ~canWrite(c) THEN NoOp
  ELSE LET prev == aliveState[c]
           wasDead == playerId \in DOMAIN prev /\ prev[playerId] = "dead"
           next == Put(prev, playerId, IF wasDead THEN "alive" ELSE "dead")
           b == board[c]
           targetSpawnId == IF playerId \in DOMAIN spawnState[c] THEN spawnState[c][playerId] ELSE ""
           targetSpawn == IF targetSpawnId # "" /\ targetSpawnId \in groupIdsOf(b)
                          THEN FindGroup(b.groups, LAMBDA g : g.id = targetSpawnId)
                          ELSE FindGroup(b.groups, LAMBDA g : g.isSpawn)
           filtered == [g \in DOMAIN b.columns |-> Without(b.columns[g], playerId)]
           newCols == Put(filtered, targetSpawn, << playerId >> \o Col(filtered, targetSpawn))
           nextBoard == IF ~wasDead /\ targetSpawn # None THEN [b EXCEPT !.columns = newCols] ELSE b
       IN  /\ aliveState' = [aliveState EXCEPT ![c] = next]
           /\ board' = [board EXCEPT ![c] = nextBoard]
           /\ Send(c, << pushAllDoc(c, nextBoard, tokens[c], next, spawnState[c],
                                    maps[c], pois[c], groupRoles[c]) >>)
           /\ UNCHANGED << uiVars, groupRoles, tokens, orderMarkers, spawnState, maps, pois,
                           noteVars, drawVars, netVars >>

toggleAlive(c, playerId) ==
  IF playerId # SelfOf[c] /\ ~canWrite(c) THEN NoOp
  ELSE LET prev == aliveState[c]
           wasDead == playerId \in DOMAIN prev /\ prev[playerId] = "dead"
           next == Put(prev, playerId, IF wasDead THEN "alive" ELSE "dead")
           b == board[c]
           targetSpawnId == IF playerId \in DOMAIN spawnState[c] THEN spawnState[c][playerId] ELSE ""
           targetSpawn == IF targetSpawnId # ""
                          THEN FindGroup(b.groups, LAMBDA g : g.id = targetSpawnId)
                          ELSE FindGroup(b.groups, LAMBDA g : g.isSpawn)
           filtered == [g \in DOMAIN b.columns |-> Without(b.columns[g], playerId)]
           newCols == Put(filtered, targetSpawn, << playerId >> \o Col(filtered, targetSpawn))
           nextBoard == IF ~wasDead /\ targetSpawn # None THEN [b EXCEPT !.columns = newCols] ELSE b
       IN  /\ aliveState' = [aliveState EXCEPT ![c] = next]
           /\ board' = [board EXCEPT ![c] = nextBoard]
           /\ Send(c, << pushAllDoc(c, nextBoard, tokens[c], next, spawnState[c],
                                    maps[c], pois[c], groupRoles[c]) >>)
           /\ UNCHANGED << uiVars, groupRoles, tokens, orderMarkers, spawnState, maps, pois,
                           noteVars, drawVars, netVars >>

setSpawn(c, playerId, spawnId) ==
  LET next == Put(spawnState[c], playerId, spawnId)
  IN  /\ spawnState' = [spawnState EXCEPT ![c] = next]
      /\ Send(c, << pushAllDoc(c, board[c], tokens[c], aliveState[c], next,
                               maps[c], pois[c], groupRoles[c]) >>)
      /\ UNCHANGED << uiVars, board, groupRoles, tokens, orderMarkers, aliveState, maps, pois,
                      noteVars, drawVars, netVars >>

\* ------------------------------------------------------------------------
\* Map tree
\* ------------------------------------------------------------------------
\* every document that exists somewhere: the store and the writes in flight
AllDocs == {store} \cup UNION {Range(outbox[c]) : c \in Clients}

IdsOfSeq(s) == {s[i].id : i \in 1..Len(s)}

\* ids of the entries of an array field over every document
IdsInDocs(f) == UNION {IF f \in DOMAIN d THEN IdsOfSeq(d[f]) ELSE {} : d \in AllDocs}

\* uid(): an id that no map or POI uses anywhere
FreshMapIds == NewMapIds \ (UNION {IdsOfSeq(maps[c]) : c \in Clients} \cup IdsInDocs("maps"))
FreshPoiIds == NewPoiIds \ (UNION {IdsOfSeq(pois[c]) : c \in Clients} \cup IdsInDocs("pois"))

\* the frame of a handler that replaces maps and pois and calls pushAll
MapWrite(c, nm, np, nactive) ==
  /\ maps' = [maps EXCEPT ![c] = nm]
  /\ pois' = [pois EXCEPT ![c] = np]
  /\ activeMapId' = [activeMapId EXCEPT ![c] = nactive]
  /\ Send(c, << pushMaps(c, nm, np) >>)
  /\ UNCHANGED << role, board, groupRoles, tokens, orderMarkers, aliveState, spawnState,
                  noteVars, drawVars, netVars >>

addSubmap(c) ==
  IF ~isAdmin(c) THEN NoOp
  ELSE \E id \in FreshMapIds :
         MapWrite(c, Append(maps[c], [id |-> id, label |-> "Neue Karte", image |-> "", x |-> 1, y |-> 1]),
                  pois[c], activeMapId[c])

renameMap(c, id, label) ==
  MapWrite(c, MapSeq(maps[c], LAMBDA m : IF m.id = id THEN [m EXCEPT !.label = label] ELSE m),
           pois[c], activeMapId[c])

deleteMap(c, id) ==
  IF ~isAdmin(c) \/ id = "main" THEN NoOp
  ELSE MapWrite(c, SelectSeq(maps[c], LAMBDA m : m.id # id),
                SelectSeq(pois[c], LAMBDA q : q.parentMapId # id),
                IF activeMapId[c] = id THEN "main" ELSE activeMapId[c])

setMapImage(c, id, image) ==
  IF id \in IdsOfSeq(maps[c])
  THEN MapWrite(c, MapSeq(maps[c], LAMBDA m : IF m.id = id THEN [m EXCEPT !.image = image] ELSE m),
                pois[c], activeMapId[c])
  ELSE MapWrite(c, maps[c],
                MapSeq(pois[c], LAMBDA q : IF q.id = id THEN [q EXCEPT !.image = image] ELSE q),
                activeMapId[c])

moveMapMarker(c, id, xy) ==
  MapWrite(c, MapSeq(maps[c], LAMBDA m : IF m.id = id THEN [m EXCEPT !.x = xy.x, !.y = xy.y] ELSE m),
           pois[c], activeMapId[c])

addPOI(c, parentMapId) ==
  IF ~isAdmin(c) THEN NoOp
  ELSE \E id \in FreshPoiIds :
         MapWrite(c, maps[c],
                  Append(pois[c], [id |-> id, label |-> "Neuer POI", image |-> "",
                                   parentMapId |-> parentMapId, x |-> 1, y |-> 1]),
                  activeMapId[c])

renamePOI(c, id, label) ==
  MapWrite(c, maps[c],
           MapSeq(pois[c], LAMBDA q : IF q.id = id THEN [q EXCEPT !.label = label] ELSE q),
           activeMapId[c])

deletePOI(c, id) ==
  MapWrite(c, maps[c], SelectSeq(pois[c], LAMBDA q : q.id # id),
           IF activeMapId[c] = id THEN "main" ELSE activeMapId[c])

movePOIMarker(c, id, xy) ==
  MapWrite(c, maps[c],
           MapSeq(pois[c], LAMBDA q : IF q.id = id THEN [q EXCEPT !.x = xy.x, !.y = xy.y] ELSE q),
           activeMapId[c])

\* ------------------------------------------------------------------------
\* Tokens and order markers
\* ------------------------------------------------------------------------
\* findIndex((t) => t.groupId === gId && (t.mapId ?? "main") === mapId), 0 for -1
TokenIndex(ts, gId, mapId) ==
  LET hit(i) == ts[i].groupId = gId /\ normalizeToken(ts[i]).mapId = mapId
  IN  IF \E i \in 1..Len(ts) : hit(i)
      THEN CHOOSE i \in 1..Len(ts) : hit(i) /\ \A j \in 1..(i-1) : ~hit(j)
      ELSE 0

\* an upsert that never looks for the existing entry
upsert_append(prev, gId, xy, mapId) ==
  Append(prev, [groupId |-> gId, x |-> xy.x, y |-> xy.y, mapId |-> mapId])

\* i === -1 ? [...prev, { groupId, x, y, mapId }] : prev.map(idx === i ? { ...t, x, y, mapId } : t)
upsert(prev, gId, xy, mapId) ==
  LET i == TokenIndex(prev, gId, mapId)
  IN  IF i = 0 THEN Append(prev, [groupId |-> gId, x |-> xy.x, y |-> xy.y, mapId |-> mapId])
      ELSE [prev EXCEPT ![i] = [groupId |-> prev[i].groupId, x |-> xy.x, y |-> xy.y, mapId |-> mapId]]

moveTokenLocal(c, gId, xy, mapId) ==
  /\ tokens' = [tokens EXCEPT ![c] = upsert(@, gId, xy, mapId)]
  /\ UNCHANGED << uiVars, board, groupRoles, orderMarkers, aliveState, spawnState, maps, pois,
                  noteVars, drawVars, netVars, outbox, calls >>

\* the frame of a handler that replaces tokens and calls pushTokensOnly
TokenWrite(c, next) ==
  /\ tokens' = [tokens EXCEPT ![c] = next]
  /\ Send(c, << pushTokensOnlyDoc(next) >>)
  /\ UNCHANGED << uiVars, board, groupRoles, orderMarkers, aliveState, spawnState, maps, pois,
                  noteVars, drawVars, netVars >>

\* a commit that updates the local tokens and forgets the remote write
commitToken_noPush(c, gId, xy, mapId) ==
  /\ tokens' = [tokens EXCEPT ![c] = upsert(MapSeq(tokens[c], normalizeToken), gId, xy, mapId)]
  /\ UNCHANGED << uiVars, board, groupRoles, orderMarkers, aliveState, spawnState, maps, pois,
                  noteVars, drawVars, netVars, outbox, calls >>

commitToken(c, gId, xy, mapId) ==
  TokenWrite(c, upsert(MapSeq(tokens[c], normalizeToken), gId, xy, mapId))

upsertToken(c, gId, xy, mapId) == commitToken(c, gId, xy, mapId)

removeToken(c, gId, mapId) ==
  IF ~canWrite(c) THEN NoOp
  ELSE TokenWrite(c, SelectSeq(tokens[c],
                     LAMBDA t : ~(t.groupId = gId /\ normalizeToken(t).mapId = mapId)))

\* findIndex((m) => m.groupId === gId && m.mapId === mapId), 0 for -1
MarkerIndex(ms, gId, mapId) ==
  LET hit(i) == ms[i].groupId = gId /\ ms[i].mapId = mapId
  IN  IF \E i \in 1..Len(ms) : hit(i)
      THEN CHOOSE i \in 1..Len(ms) : hit(i) /\ \A j \in 1..(i-1) : ~hit(j)
      ELSE 0

\* the frame of a handler that replaces orderMarkers and calls pushOrderMarkersOnly
MarkerWrite(c, next) ==
  /\ orderMarkers' = [orderMarkers EXCEPT ![c] = next]
  /\ Send(c, << pushOrderMarkersOnlyDoc(next) >>)
  /\ UNCHANGED << uiVars, board, groupRoles, tokens, aliveState, spawnState, maps, pois,
                  noteVars, drawVars, netVars >>

upsertOrderMarker(c, gId, xy, mapId) ==
  IF ~canWrite(c) THEN NoOp
  ELSE LET prev == orderMarkers[c]
           i == MarkerIndex(prev, gId, mapId)
       IN  MarkerWrite(c, IF i = 0
                          THEN Append(prev, [groupId |-> gId, x |-> xy.x, y |-> xy.y, mapId |-> mapId])
                          ELSE [prev EXCEPT ![i] = [@ EXCEPT !.x = xy.x, !.y = xy.y]])

moveOrderMarkerLocal(c, gId, xy, mapId) ==
  LET prev == orderMarkers[c]
      i == MarkerIndex(prev, gId, mapId)
  IN  /\ orderMarkers' = [orderMarkers EXCEPT ![c] =
                            IF i = 0 THEN prev ELSE [prev EXCEPT ![i] = [@ EXCEPT !.x = xy.x, !.y = xy.y]]]
      /\ UNCHANGED << uiVars, board, groupRoles, tokens, aliveState, spawnState, maps, pois,
                      noteVars, drawVars, netVars, outbox, calls >>

removeOrderMarker(c, gId, mapId) ==
  IF ~canWrite(c) THEN NoOp
  ELSE MarkerWrite(c, SelectSeq(orderMarkers[c], LAMBDA m : ~(m.groupId = gId /\ m.mapId = mapId)))

\* ------------------------------------------------------------------------
\* Debounce timers
\* ------------------------------------------------------------------------
\* clearTimeout(ref.current): the handle kept in the ref is the one scheduled
\* last; clearing it removes that timeout if it has not fired yet
clearTimeout(pending) ==
  IF pending = << >> THEN << >> ELSE SubSeq(pending, 1, Len(pending) - 1)

\* a schedule that leaves the pending timeout in place
reschedule_noClear(pending, captured) == Append(pending, captured)

\* if (ref.current) clearTimeout(ref.current); ref.current = setTimeout(..captured..)
reschedule(pending, captured) == Append(clearTimeout(pending), captured)

\* ------------------------------------------------------------------------
\* Notes
\* ------------------------------------------------------------------------
Min(a, b) == IF a < b THEN a ELSE b

handleNotesChange(c, text) ==
  /\ Len(notesTimer[c]) <= MaxEdits
  /\ notesText' = [notesText EXCEPT ![c] = text]
  /\ notesTimer' = [notesTimer EXCEPT ![c] = reschedule(@, text)]
  /\ burst' = [burst EXCEPT ![c] =
                 IF notesTimer[c] = << >>
                 THEN [edits |-> 1, written |-> << >>, last |-> text]
                 ELSE [edits |-> Min(@.edits + 1, MaxEdits), written |-> @.written, last |-> text]]
  /\ UNCHANGED << uiVars, board, groupRoles, tokens, orderMarkers, aliveState, spawnState,
                  maps, pois, drawVars, netVars, outbox, calls >>

\* a timeout that writes the notes text the client shows when it fires
notesTimerFire_current(c) ==
  /\ notesTimer[c] # << >>
  /\ notesTimer' = [notesTimer EXCEPT ![c] = Tail(@)]
  /\ Send(c, << [notesText |-> notesText[c]] >>)
  /\ burst' = [burst EXCEPT ![c].written = Append(@, notesText[c])]
  /\ UNCHANGED << uiVars, board, groupRoles, tokens, orderMarkers, aliveState, spawnState,
                  maps, pois, notesText, drawVars, netVars >>

\* the oldest pending notes timeout of client c fires
notesTimerFire(c) ==
  /\ notesTimer[c] # << >>
  /\ notesTimer' = [notesTimer EXCEPT ![c] = Tail(@)]
  /\ Send(c, << [notesText |-> Head(notesTimer[c])] >>)
  /\ burst' = [burst EXCEPT ![c].written = Append(@, Head(notesTimer[c]))]
  /\ UNCHANGED << uiVars, board, groupRoles, tokens, orderMarkers, aliveState, spawnState,
                  maps, pois, notesText, drawVars, netVars >>

\* ------------------------------------------------------------------------
\* Drawings
\* ------------------------------------------------------------------------
\* prev[activeMapId] ?? []
Els(d, m) == IF m \in DOMAIN d THEN d[m] ELSE << >>

\* ids of the drawing elements of a DrawingsMap
IdsOfDrawings(d) == UNION {IdsOfSeq(d[m]) : m \in DOMAIN d}

\* uid(): an element id that is in use nowhere
FreshDrawIds ==
  DrawIds \ ( UNION {IdsOfDrawings(drawings[c]) : c \in Clients}
              \cup UNION {UNION {IdsOfDrawings(drawTimer[c][k]) : k \in 1..Len(drawTimer[c])} : c \in Clients}
              \cup UNION {IF "drawings" \in DOMAIN d THEN IdsOfDrawings(d.drawings) ELSE {} : d \in AllDocs} )

\* setDrawings(next); drawingsRef.current = next; pushDrawings(next)
DrawWrite(c, next) ==
  /\ drawings' = [drawings EXCEPT ![c] = next]
  /\ drawTimer' = [drawTimer EXCEPT ![c] = reschedule(@, next)]
  /\ UNCHANGED << uiVars, board, groupRoles, tokens, orderMarkers, aliveState, spawnState,
                  maps, pois, noteVars, netVars, outbox, calls >>

addDrawElement(c, el) ==
  IF ~canWrite(c) THEN NoOp
  ELSE DrawWrite(c, Put(drawings[c], activeMapId[c], Append(Els(drawings[c], activeMapId[c]), el)))

removeDrawElement(c, id) ==
  IF ~canWrite(c) THEN NoOp
  ELSE DrawWrite(c, Put(drawings[c], activeMapId[c],
                        SelectSeq(Els(drawings[c], activeMapId[c]), LAMBDA el : el.id # id)))

\* an undo that removes the oldest element instead of the newest
undoDrawElement_first(c) ==
  IF ~canWrite(c) THEN NoOp
  ELSE LET mapEls == Els(drawings[c], activeMapId[c])
       IN  IF mapEls = << >> THEN NoOp
           ELSE DrawWrite(c, Put(drawings[c], activeMapId[c], Tail(mapEls)))

undoDrawElement(c) ==
  IF ~canWrite(c) THEN NoOp
  ELSE LET mapEls == Els(drawings[c], activeMapId[c])
       IN  IF mapEls = << >> THEN NoOp
           ELSE DrawWrite(c, Put(drawings[c], activeMapId[c], SubSeq(mapEls, 1, Len(mapEls) - 1)))

clearDrawings(c) ==
  IF ~canWrite(c) THEN NoOp
  ELSE DrawWrite(c, Put(drawings[c], activeMapId[c], << >>))

\* the oldest pending drawings timeout of client c fires
drawTimerFire(c) ==
  /\ drawTimer[c] # << >>
  /\ drawTimer' = [drawTimer EXCEPT ![c] = Tail(@)]
  /\ Send(c, << [drawings |-> Head(drawTimer[c])] >>)
  /\ UNCHANGED << uiVars, board, groupRoles, tokens, orderMarkers, aliveState, spawnState,
                  maps, pois, noteVars, drawings, netVars >>

\* setActiveMapId(id)
setActiveMapId(c, id) ==
  /\ activeMapId' = [activeMapId EXCEPT ![c] = id]
  /\ UNCHANGED << role, board, groupRoles, tokens, orderMarkers, aliveState, spawnState,
                  maps, pois, noteVars, drawVars, netVars, outbox, calls >>

\* ------------------------------------------------------------------------
\* Drag and drop on the board
\* ------------------------------------------------------------------------
\* a group drag that exchanges the two groups instead of moving one
dragGroup_swap(c, activeId, overId) ==
  LET prev == board[c]
      oldIdx == GroupIndex(prev.groups, activeId)
      newIdx == GroupIndex(prev.groups, overId)
  IN  IF oldIdx = 0 \/ newIdx = 0 \/ oldIdx = newIdx THEN NoOp
      ELSE BoardWrite(c, [prev EXCEPT !.groups =
                            [prev.groups EXCEPT ![oldIdx] = prev.groups[newIdx],
                                                ![newIdx] = prev.groups[oldIdx]]])

\* the group-drag branch of onDragEnd
dragGroup(c, activeId, overId) ==
  LET prev == board[c]
      oldIdx == GroupIndex(prev.groups, activeId)
      newIdx == GroupIndex(prev.groups, overId)
  IN  IF oldIdx = 0 \/ newIdx = 0 \/ oldIdx = newIdx THEN NoOp
      ELSE BoardWrite(c, [prev EXCEPT !.groups = arrayMove(prev.groups, oldIdx, newIdx)])

\* reorder that exchanges the two items instead of moving one
reorder_swap(c, from, activeId, overId) ==
  LET prev == board[c]
      col == Col(prev.columns, from)
      oi == IndexOf(col, activeId)
      ni == IndexOf(col, overId)
  IN  IF oi # 0 /\ ni # 0 /\ oi # ni
      THEN BoardWrite(c, [prev EXCEPT !.columns =
                            Put(prev.columns, from, [col EXCEPT ![oi] = col[ni], ![ni] = col[oi]])])
      ELSE NoOp

\* the from === to branch of onDragEnd
reorder(c, from, activeId, overId) ==
  LET prev == board[c]
      oi == IndexOf(Col(prev.columns, from), activeId)
      ni == IndexOf(Col(prev.columns, from), overId)
  IN  IF oi # 0 /\ ni # 0 /\ oi # ni
      THEN BoardWrite(c, [prev EXCEPT !.columns = Put(prev.columns, from, arrayMove(Col(prev.columns, from), oi, ni))])
      ELSE NoOp

\* cross-container move that leaves the id in its old container
moveAcross_keep(c, from, to, activeId) ==
  LET prev == board[c]
  IN  BoardWrite(c, [prev EXCEPT !.columns = Put(prev.columns, to, << activeId >> \o Col(prev.columns, to))])

\* cross-container move that appends instead of prepending
moveAcross_append(c, from, to, activeId) ==
  LET prev == board[c]
      cols1 == Put(prev.columns, from, Without(Col(prev.columns, from), activeId))
  IN  BoardWrite(c, [prev EXCEPT !.columns = Put(cols1, to, Col(prev.columns, to) \o << activeId >>)])

\* the from !== to branch of onDragEnd
moveAcross(c, from, to, activeId) ==
  LET prev == board[c]
      cols1 == Put(prev.columns, from, Without(Col(prev.columns, from), activeId))
  IN  BoardWrite(c, [prev EXCEPT !.columns = Put(cols1, to, << activeId >> \o Col(prev.columns, to))])

\* a handler that does not test whether activeId was found in a column
onDragEnd_noFromCheck(c, activeId, overId) ==
  LET isSelf == activeId = SelfOf[c]
      groupIds == groupIdsOf(board[c])
      isGroupDrag == activeId \in groupIds /\ activeId # "unassigned"
      overIsGroup == overId \in groupIds
      froms == findContainer(board[c].columns, activeId)
      tos == IF overIsGroup THEN {overId} ELSE findContainer(board[c].columns, overId)
  IN  IF ~canWrite(c) /\ ~isSelf THEN NoOp
      ELSE IF overId = None THEN NoOp
      ELSE IF isGroupDrag /\ overIsGroup /\ canWrite(c) THEN dragGroup(c, activeId, overId)
      ELSE IF tos = {} THEN NoOp
      ELSE IF froms = {}
           THEN \E to \in tos :
                  BoardWrite(c, [board[c] EXCEPT !.columns =
                                   Put(board[c].columns, to, << activeId >> \o Col(board[c].columns, to))])
           ELSE \E from \in froms, to \in tos :
                  IF from = to THEN reorder(c, from, activeId, overId)
                  ELSE moveAcross(c, from, to, activeId)

onDragEnd(c, activeId, overId) ==
  LET isSelf == activeId = SelfOf[c]
      groupIds == groupIdsOf(board[c])
      isGroupDrag == activeId \in groupIds /\ activeId # "unassigned"
      overIsGroup == overId \in groupIds
      froms == findContainer(board[c].columns, activeId)
      tos == IF overIsGroup THEN {overId} ELSE findContainer(board[c].columns, overId)
  IN  IF ~canWrite(c) /\ ~isSelf THEN NoOp
      ELSE IF overId = None THEN NoOp
      ELSE IF isGroupDrag /\ overIsGroup /\ canWrite(c) THEN dragGroup(c, activeId, overId)
      ELSE IF froms = {} \/ tos = {} THEN NoOp
      ELSE \E from \in froms, to \in tos :
             IF from = to THEN reorder(c, from, activeId, overId)
             ELSE moveAcross(c, from, to, activeId)

\* ------------------------------------------------------------------------
\* Specification of the board: one commander merges the roster and drags
\* entities onto containers and onto each other; the writes land at the store
\* ------------------------------------------------------------------------
Roster == << "p1", "p2", "p3" >>
DragActive == Entities
DragOver == Entities \cup {"unassigned", "g1", "g2"} \cup {None}

RolesBoard == [c \in Clients |-> IF c = "A" THEN "commander" ELSE "viewer"]

InitBoardSpec == InitWith(RolesBoard)

NextBoard ==
  \/ Background(applyPlayerList("A", Roster))
  \/ \E a \in DragActive, o \in DragOver : Background(onDragEnd("A", a, o))
  \/ Background(Deliver("A"))

SpecBoard == InitBoardSpec /\ [][NextBoard]_vars

\* number of columns of a board that hold the id
ColumnsHolding(cols, e) == Cardinality({g \in DOMAIN cols : e \in Range(cols[g])})

\* total number of occurrences of the id over all columns
RECURSIVE SumOver(_, _, _)
SumOver(cols, gs, e) ==
  IF gs = {} THEN 0
  ELSE LET g == CHOOSE x \in gs : TRUE
       IN  Count(cols[g], e) + SumOver(cols, gs \ {g}, e)

Occurrences(cols, e) == SumOver(cols, DOMAIN cols, e)

\* the drop target of a drag resolved against the board the handler sees
DropTargets(c, o) ==
  IF o \in groupIdsOf(board[c]) THEN {o} ELSE findContainer(board[c].columns, o)

\* the client may reassign the entity
MayReassign(c, a) == canWrite(c) \/ a = SelfOf[c]

\* C1: single-container invariant.  Once the roster has been merged, after
\* any sequence of moves between containers and reorders within a container,
\* every entity of the roster appears in exactly one column, exactly once.
C1_SingleContainer ==
  \A c \in Clients :
    allIds(board[c].columns) # {} =>
      \A e \in Range(Roster) :
        ColumnsHolding(board[c].columns, e) = 1 /\ Occurrences(board[c].columns, e) = 1

\* an entity has been moved into g1 and another one into g2, and the
\* remaining column has been left behind
C1_Witness ==
  /\ Range(board["A"].columns["g1"]) # {}
  /\ Range(board["A"].columns["g2"]) # {}
  /\ Len(board["A"].columns["unassigned"]) = 1

\* C7: cross-container reassignment.  When activeId is in container from and
\* the drop target resolves to a different container to, then afterwards
\* from no longer holds activeId, to is activeId followed by its previous
\* members in their previous order, and every other column is unchanged.
C7_CrossContainer ==
  [][ \A c \in Clients, a \in Entities, o \in DragOver \ {None} :
        \A from \in findContainer(board[c].columns, a), to \in DropTargets(c, o) :
          (MayReassign(c, a) /\ from # to /\ onDragEnd(c, a, o)) =>
             /\ DOMAIN board'[c].columns = DOMAIN board[c].columns
             /\ a \notin Range(board'[c].columns[from])
             /\ board'[c].columns[to] = << a >> \o board[c].columns[to]
             /\ \A g \in DOMAIN board[c].columns \ {from, to} :
                  board'[c].columns[g] = board[c].columns[g]
             /\ board'[c].columns[from] = Without(board[c].columns[from], a)
    ]_vars

\* two entities have been dropped on g1 one after the other: the later
\* one stands in front of the earlier one
C7_Witness ==
  /\ Len(board["A"].columns["g1"]) = 2
  /\ board["A"].columns["g1"][1] = "p3"
  /\ board["A"].columns["g1"][2] = "p1"

\* C8: stable reorder.  When activeId is dropped on another item of the same
\* container, the resulting column is a permutation of the old one in which
\* activeId sits at the target item's old index and all other ids keep their
\* relative order; no other column changes.
C8_StableReorder ==
  [][ \A c \in Clients, a \in Entities, o \in Entities :
        \A from \in findContainer(board[c].columns, a) :
          (MayReassign(c, a) /\ a # o /\ o \in Range(board[c].columns[from]) /\ onDragEnd(c, a, o)) =>
             LET old == board[c].columns[from]
                 new == board'[c].columns[from]
             IN  /\ Len(new) = Len(old)
                 /\ \A e \in Range(old) : Count(new, e) = Count(old, e)
                 /\ new[IndexOf(old, o)] = a
                 /\ Without(new, a) = Without(old, a)
                 /\ DOMAIN board'[c].columns = DOMAIN board[c].columns
                 /\ \A g \in DOMAIN board[c].columns \ {from} :
                      board'[c].columns[g] = board[c].columns[g]
    ]_vars

\* the first entity of the roster has been dragged over the last one of the
\* same column: it now stands last and the other two kept their order
C8_Witness ==
  board["A"].columns["unassigned"] = << "p2", "p3", "p1" >>

\* ------------------------------------------------------------------------
\* Specification of the shared board: two commanders merge rosters (the
\* sheet may hold two rows of the same name, which get the same id), edit
\* the board, and receive each other's writes as snapshots
\* ------------------------------------------------------------------------
RosterEntities == {"p1", "p2"}
Rosters == { << "p1", "p2" >>, << "p1", "p1" >> }
RosterOver == RosterEntities \cup {"unassigned", "g1"}

RolesShared == [c \in Clients |-> "commander"]

InitShared == InitWith(RolesShared)

NextShared ==
  \/ \E c \in Clients, list \in Rosters : Gesture(applyPlayerList(c, list))
  \/ \E c \in Clients, a \in RosterEntities, o \in RosterOver : Gesture(onDragEnd(c, a, o))
  \/ Gesture(toggleAlive("A", "p1"))
  \/ Gesture(deleteGroup("A", "g1"))
  \/ \E g \in {"g1", "unassigned"} : Gesture(clearGroup("A", g))
  \/ Gesture(addGroup("A", TRUE))
  \/ \E c \in Clients : Background(onSnapshot(c))
  \/ \E c \in Clients : Background(Deliver(c))

SpecShared == InitShared /\ [][NextShared]_vars

\* C2: in every reachable local state, every entity id appears in at most
\* one column and at most once inside that column.
C2_AtMostOnce ==
  \A c \in Clients : \A e \in Entities :
    ColumnsHolding(board[c].columns, e) <= 1 /\ Occurrences(board[c].columns, e) <= 1

\* ------------------------------------------------------------------------
\* Specification of the synchronisation engine: two commanders place
\* tokens and order markers, rename and add groups, toggle themselves and
\* choose a spawn group, all without waiting for each other; writes land
\* in any order between clients and every landing notifies every client
\* ------------------------------------------------------------------------
InitSync == InitWith(RolesShared)

\* each client places its markers at its own spot
SpotOf(c) == IF c = "A" THEN [x |-> 0, y |-> 0] ELSE [x |-> 2, y |-> 2]

NextSync ==
  \/ \E c \in Clients : Gesture(commitToken(c, "g1", SpotOf(c), "main"))
  \/ \E c \in Clients : Gesture(upsertOrderMarker(c, "g1", SpotOf(c), "main"))
  \/ \E c \in Clients : Gesture(removeToken(c, "g1", "main"))
  \/ \E c \in Clients : Gesture(renameGroup(c, "g1", IF c = "A" THEN "L0" ELSE "L1"))
  \/ \E c \in Clients : Gesture(toggleAlive(c, SelfOf[c]))
  \/ \E c \in Clients : Gesture(setSpawn(c, SelfOf[c], "spawn1"))
  \/ \E c \in Clients : Background(onSnapshot(c))
  \/ \E c \in Clients : Background(Deliver(c))

SpecSync == InitSync /\ [][NextSync]_vars

\* C3: applying a remote snapshot replaces the local board (groups and
\* columns), tokens, orderMarkers, aliveState and spawnState with the
\* snapshot's values, whatever optimistic value or not-yet-landed write the
\* client holds: right after the handler, each of these local slices equals
\* the slice of the snapshot (an absent slice of the document reads as empty).
C3_SnapshotReplaces ==
  [][ \A c \in Clients :
        (snapPending[c] /\ store # NoDoc /\ onSnapshot(c)) =>
           /\ "groups" \in DOMAIN store =>
                board'[c].groups = store.groups /\ board'[c].columns = store.columns
           /\ "groups" \notin DOMAIN store =>
                board'[c].groups = DEFAULT_GROUPS /\ allIds(board'[c].columns) = {}
           /\ tokens'[c] = FieldOr(store, "tokens", << >>)
           /\ orderMarkers'[c] = FieldOr(store, "orderMarkers", << >>)
           /\ aliveState'[c] = FieldOr(store, "aliveState", EmptyFn)
           /\ spawnState'[c] = FieldOr(store, "spawnState", EmptyFn)
    ]_vars

\* client A holds a token write that has not landed yet, and has already
\* taken over the token array that client B wrote to the store
C3_Witness ==
  /\ outbox["A"] # << >>
  /\ "tokens" \in DOMAIN Head(outbox["A"])
  /\ "tokens" \in DOMAIN store
  /\ ~snapPending["A"]
  /\ tokens["A"] = store.tokens
  /\ tokens["A"] # Head(outbox["A"]).tokens

\* nothing is in flight and no notification is waiting
Quiescent ==
  /\ \A c \in Clients : outbox[c] = << >> /\ ~snapPending[c]
  /\ \A c \in Clients : notesTimer[c] = << >> /\ drawTimer[c] = << >>

\* the local copies of the document's fields agree with the store
Agrees(c) ==
  /\ "groups" \in DOMAIN store => board[c].groups = store.groups
  /\ "columns" \in DOMAIN store => board[c].columns = store.columns
  /\ "tokens" \in DOMAIN store => tokens[c] = store.tokens
  /\ "orderMarkers" \in DOMAIN store => orderMarkers[c] = store.orderMarkers
  /\ "aliveState" \in DOMAIN store => aliveState[c] = store.aliveState
  /\ "spawnState" \in DOMAIN store => spawnState[c] = store.spawnState
  /\ "groupRoles" \in DOMAIN store => groupRoles[c] = store.groupRoles
  /\ "notesText" \in DOMAIN store => notesText[c] = store.notesText

LegacyDoc == [tokens |-> << [groupId |-> "g1", x |-> 0, y |-> 0, mapId |-> NoMap] >>]

InitTokens ==
  /\ role = RolesShared
  /\ board = [c \in Clients |-> InitBoard]
  /\ groupRoles = [c \in Clients |-> EmptyFn]
  /\ tokens = [c \in Clients |-> << >>]
  /\ orderMarkers = [c \in Clients |-> << >>]
  /\ aliveState = [c \in Clients |-> EmptyFn]
  /\ spawnState = [c \in Clients |-> EmptyFn]
  /\ maps = [c \in Clients |-> DEFAULT_MAPS]
  /\ pois = [c \in Clients |-> << >>]
  /\ activeMapId = [c \in Clients |-> "main"]
  /\ notesText = [c \in Clients |-> ""]
  /\ notesTimer = [c \in Clients |-> << >>]
  /\ drawings = [c \in Clients |-> EmptyFn]
  /\ drawTimer = [c \in Clients |-> << >>]
  /\ store \in {NoDoc, LegacyDoc}
  /\ outbox = [c \in Clients |-> << >>]
  /\ calls = [c \in Clients |-> << >>]
  /\ snapPending = [c \in Clients |-> store # NoDoc]
  /\ ops = 0
  /\ burst = [c \in Clients |-> NoBurst]
  /\ InitView

TokenKeys == { << "g1", "main" >>, << "g1", "sub1" >>, << "g2", "main" >> }

NextTokens ==
  \/ \E k \in TokenKeys, xy \in XY : Gesture(commitToken("A", k[1], xy, k[2]))
  \/ Gesture(upsertToken("B", "g1", [x |-> 2, y |-> 2], "main"))
  \/ Gesture(moveTokenLocal("A", "g1", [x |-> 2, y |-> 2], "main"))
  \/ Gesture(removeToken("A", "g1", "main"))
  \/ Gesture(deleteGroup("A", "g1"))
  \/ \E c \in Clients : Background(onSnapshot(c))
  \/ \E c \in Clients : Background(Deliver(c))

SpecTokens == InitTokens /\ [][NextTokens]_vars

\* the keys (groupId, mapId) of a token array, absent mapId read as "main"
TokenKeyOf(t) == << t.groupId, normalizeToken(t).mapId >>

\* no two entries of the array have the same key
UniqueTokens(ts) ==
  \A i, j \in 1..Len(ts) : TokenKeyOf(ts[i]) = TokenKeyOf(ts[j]) => i = j

\* C9: at most one Token per (groupId, mapId).  In every reachable local
\* state and in every tokens array written to the store, the number of
\* tokens with a given (groupId, mapId), absent mapId read as "main", is at
\* most one; and a commit for a key that the client already holds updates
\* that entry in place: same length, same position, every other entry kept.
C9_OneTokenPerKey ==
  /\ [](/\ \A c \in Clients : UniqueTokens(tokens[c])
        /\ \A d \in AllDocs : "tokens" \in DOMAIN d => UniqueTokens(d.tokens))
  /\ [][ \A c \in Clients, k \in TokenKeys, xy \in XY :
           LET i == TokenIndex(tokens[c], k[1], k[2])
           IN  (i # 0 /\ outbox'[c] # outbox[c] /\ commitToken(c, k[1], xy, k[2])) =>
                  /\ Len(tokens'[c]) = Len(tokens[c])
                  /\ tokens'[c][i] = [groupId |-> k[1], x |-> xy.x, y |-> xy.y, mapId |-> k[2]]
                  /\ \A j \in 1..Len(tokens[c]) : j # i => tokens'[c][j] = normalizeToken(tokens[c][j])
     ]_vars

\* client A has seen the store's token of g1 and then committed a new
\* position for it: its array still has one entry, at the new position,
\* and the write is on its way
C9_Witness ==
  /\ "tokens" \in DOMAIN store
  /\ Len(store.tokens) = 1
  /\ store.tokens[1].x = 0
  /\ TokenKeyOf(store.tokens[1]) = << "g1", "main" >>
  /\ ~snapPending["A"]
  /\ tokens["A"] = << [groupId |-> "g1", x |-> 2, y |-> 2, mapId |-> "main"] >>
  /\ outbox["A"] = << [tokens |-> tokens["A"]] >>

\* ------------------------------------------------------------------------
\* Specification of the write entry points under the viewer role: client A
\* is a commander and fills the room, client B is a viewer and calls every
\* write entry point of the page component
\* ------------------------------------------------------------------------
InitViewer == InitWith(RolesBoard)

DrawEls == {[id |-> i, type |-> "path"] : i \in FreshDrawIds}

NextViewer ==
  \/ \E c \in Clients : Background(applyPlayerList(c, Roster))
  \/ Gesture(commitToken("A", "g1", [x |-> 0, y |-> 0], "main"))
  \/ \E el \in DrawEls : Gesture(addDrawElement("A", el))
  \/ Gesture(setGroupRole("A", "g1", "p1", "leader"))
  \/ Background(drawTimerFire("A"))
  \/ \E isSpawn \in BOOLEAN : Gesture(addGroup("B", isSpawn))
  \/ Gesture(renameGroup("B", "g1", "L0"))
  \/ Gesture(deleteGroup("A", "g1"))
  \/ Gesture(clearGroup("B", "unassigned"))
  \/ Gesture(setGroupColor("B", "g1", "3b82f6"))
  \/ Gesture(onDragEnd("B", "g1", "g2"))
  \/ \E a \in Entities : Gesture(onDragEnd("B", a, "g1"))
  \/ \E xy \in XY : Gesture(commitToken("B", "g1", xy, "main"))
  \/ \E xy \in XY : Gesture(upsertToken("B", "g2", xy, "main"))
  \/ Gesture(removeToken("B", "g1", "main"))
  \/ \E el \in DrawEls : Gesture(addDrawElement("B", el))
  \/ \E id \in DrawIds : Gesture(removeDrawElement("B", id))
  \/ Gesture(undoDrawElement("B"))
  \/ Gesture(clearDrawings("B"))
  \/ \E r \in {"leader", "deputy", None} : Gesture(setGroupRole("B", "g1", "p1", r))
  \/ \E c \in Clients : Background(onSnapshot(c))
  \/ \E c \in Clients : Background(Deliver(c))

SpecViewer == InitViewer /\ [][NextViewer]_vars

\* a call of one of the write entry points by client c, a reassignment
\* being one of an entity other than the caller's own
WriteCall(c) ==
  \/ \E isSpawn \in BOOLEAN : addGroup(c, isSpawn)
  \/ renameGroup(c, "g1", "L0")
  \/ deleteGroup(c, "g1")
  \/ clearGroup(c, "unassigned")
  \/ setGroupColor(c, "g1", "3b82f6")
  \/ onDragEnd(c, "g1", "g2")
  \/ \E a \in Entities \ {SelfOf[c]} : onDragEnd(c, a, "g1")
  \/ \E xy \in XY : commitToken(c, "g1", xy, "main")
  \/ \E xy \in XY : upsertToken(c, "g2", xy, "main")
  \/ removeToken(c, "g1", "main")
  \/ \E el \in DrawEls : addDrawElement(c, el)
  \/ \E id \in DrawIds : removeDrawElement(c, id)
  \/ undoDrawElement(c)
  \/ clearDrawings(c)
  \/ \E r \in {"leader", "deputy", None} : setGroupRole(c, "g1", "p1", r)

\* C5: role gating.  When the client's role is viewer, a call of any write
\* entry point (group add, rename, delete, clear, recolor, reorder; reassign
\* of another entity; commitToken, upsertToken, removeToken; add, remove,
\* undo, clear drawing; setGroupRole) leaves the client's board, tokens,
\* drawings and group roles unchanged.
C5_ViewerGated ==
  [][ \A c \in Clients :
        (role[c] = "viewer" /\ WriteCall(c)) =>
           UNCHANGED << board[c], tokens[c], drawings[c], groupRoles[c] >> ]_vars

\* ------------------------------------------------------------------------
\* Specification of the map tree: client A is the admin and creates a
\* sub-map and a POI; client B is a commander or a viewer and calls every
\* mutator of the map tree
\* ------------------------------------------------------------------------
InitMaps ==
  \E rb \in {"commander", "viewer"} :
    InitWith([c \in Clients |-> IF c = "A" THEN "admin" ELSE rb])

NextMaps ==
  \/ Gesture(addSubmap("A"))
  \/ Gesture(addPOI("A", "main"))
  \/ Gesture(addSubmap("B"))
  \/ Gesture(addPOI("B", "main"))
  \/ \E id \in {"main", "sub1"} : Gesture(renameMap("B", id, "L0"))
  \/ Gesture(deleteMap("B", "sub1"))
  \/ Gesture(setMapImage("B", "main", ""))
  \/ Gesture(moveMapMarker("B", "sub1", [x |-> 2, y |-> 2]))
  \/ Gesture(renamePOI("B", "poi1", "L0"))
  \/ Gesture(deletePOI("B", "poi1"))
  \/ Gesture(movePOIMarker("B", "poi1", [x |-> 2, y |-> 2]))
  \/ \E c \in Clients : Background(onSnapshot(c))
  \/ \E c \in Clients : Background(Deliver(c))

SpecMaps == InitMaps /\ [][NextMaps]_vars

\* a call of one of the mutators of the map tree by client c
MapCall(c) ==
  \/ addSubmap(c)
  \/ addPOI(c, "main")
  \/ \E id \in {"main", "sub1"} : renameMap(c, id, "L0")
  \/ deleteMap(c, "sub1")
  \/ setMapImage(c, "main", "")
  \/ moveMapMarker(c, "sub1", [x |-> 2, y |-> 2])
  \/ renamePOI(c, "poi1", "L0")
  \/ deletePOI(c, "poi1")
  \/ movePOIMarker(c, "poi1", [x |-> 2, y |-> 2])

\* C6: the mutations of the map tree are admin-only at every entry point.
\* When the role is commander or viewer, a call of addSubmap, addPOI,
\* deleteMap, deletePOI, renameMap, renamePOI, setMapImage, moveMapMarker or
\* movePOIMarker leaves the client's maps and pois unchanged and issues no
\* remote write.
C6_AdminOnly ==
  [][ \A c \in Clients :
        (~isAdmin(c) /\ MapCall(c)) =>
           UNCHANGED << maps[c], pois[c], outbox[c] >> ]_vars

\* ------------------------------------------------------------------------
\* Specification of the notes: both clients edit the notes, the debounce
\* timers fire, the writes land and the snapshots are applied; nothing else
\* is mutated
\* ------------------------------------------------------------------------
InitNotes == InitWith(RolesShared)

NextNotes ==
  \/ \E c \in Clients, text \in Texts : Gesture(handleNotesChange(c, text))
  \/ \E c \in Clients : Background(notesTimerFire(c))
  \/ \E c \in Clients : Background(onSnapshot(c))
  \/ \E c \in Clients : Background(Deliver(c))

SpecNotes == InitNotes /\ [][NextNotes]_vars

\* C10: debounce coalescing.  The edits of the notes that arrive one after
\* the other, each before the timer of the previous one has fired, produce
\* no remote write while the timer is pending and exactly one write of
\* notesText once it has fired, and that write carries the text of the
\* last edit.
C10_DebounceCoalescing ==
  \A c \in Clients :
    /\ notesTimer[c] # << >> => burst[c].written = << >>
    /\ (notesTimer[c] = << >> /\ burst[c].edits > 0) =>
          /\ burst[c].written = << burst[c].last >>
          /\ outbox[c] # << >> => outbox[c][Len(outbox[c])] = [notesText |-> burst[c].last]

\* client A has made three edits in a row, "b" the last, the timer has
\* fired once and the one write of "b" is on its way
C10_Witness ==
  /\ burst["A"].edits = 3
  /\ burst["A"].last = "b"
  /\ notesTimer["A"] = << >>
  /\ burst["A"].written = << "b" >>
  /\ outbox["A"] = << [notesText |-> "b"] >>

\* ------------------------------------------------------------------------
\* Specification of the drawings: the room already holds a sub-map and one
\* drawing element on the main map; two commanders switch between the maps,
\* draw, undo, erase and clear; the debounce timers fire, the writes land
\* ------------------------------------------------------------------------
DrawnDoc ==
  [maps |-> DEFAULT_MAPS \o << [id |-> "sub1", label |-> "Neue Karte", image |-> "", x |-> 1, y |-> 1] >>,
   drawings |-> [m \in {"main"} |-> << [id |-> "e0", type |-> "line"] >>]]

InitDraw ==
  /\ role = RolesShared
  /\ board = [c \in Clients |-> InitBoard]
  /\ groupRoles = [c \in Clients |-> EmptyFn]
  /\ tokens = [c \in Clients |-> << >>]
  /\ orderMarkers = [c \in Clients |-> << >>]
  /\ aliveState = [c \in Clients |-> EmptyFn]
  /\ spawnState = [c \in Clients |-> EmptyFn]
  /\ maps = [c \in Clients |-> DEFAULT_MAPS]
  /\ pois = [c \in Clients |-> << >>]
  /\ activeMapId = [c \in Clients |-> "main"]
  /\ notesText = [c \in Clients |-> ""]
  /\ notesTimer = [c \in Clients |-> << >>]
  /\ drawings = [c \in Clients |-> EmptyFn]
  /\ drawTimer = [c \in Clients |-> << >>]
  /\ store = DrawnDoc
  /\ outbox = [c \in Clients |-> << >>]
  /\ calls = [c \in Clients |-> << >>]
  /\ snapPending = [c \in Clients |-> TRUE]
  /\ ops = 0
  /\ burst = [c \in Clients |-> NoBurst]
  /\ InitView

NextDraw ==
  \/ \E id \in IdsOfSeq(maps["A"]) : Gesture(setActiveMapId("A", id))
  \/ \E c \in Clients, el \in DrawEls : Gesture(addDrawElement(c, el))
  \/ \E c \in Clients : Gesture(undoDrawElement(c))
  \/ \E id \in {"e0"} \cup DrawIds : Gesture(removeDrawElement("A", id))
  \/ Gesture(clearDrawings("A"))
  \/ \E c \in Clients : Background(drawTimerFire(c))
  \/ \E c \in Clients : Background(onSnapshot(c))
  \/ \E c \in Clients : Background(Deliver(c))

SpecDraw == InitDraw /\ [][NextDraw]_vars

\* C11: undo correctness.  undoDrawElement on an empty drawing sequence of
\* the active map changes nothing and schedules no write; on a non-empty
\* sequence it removes exactly the last element of that sequence and leaves
\* every other element and the sequence of every other map unchanged.
C11_UndoCorrect ==
  [][ \A c \in Clients :
        LET m == activeMapId[c]
            mapEls == Els(drawings[c], m)
        IN  (canWrite(c) /\ undoDrawElement(c)) =>
               IF mapEls = << >>
               THEN /\ drawings'[c] = drawings[c]
                    /\ drawTimer'[c] = drawTimer[c]
                    /\ outbox'[c] = outbox[c]
               ELSE /\ Els(drawings'[c], m) = SubSeq(mapEls, 1, Len(mapEls) - 1)
                    /\ \A n \in MapCtxIds \ {m} : Els(drawings'[c], n) = Els(drawings[c], n)
    ]_vars

\* client A has drawn a second element on the main map and taken it back:
\* the first element is still there, and the write of that state is scheduled
C11_Witness ==
  /\ ops = 2
  /\ activeMapId["A"] = "main"
  /\ Els(drawings["A"], "main") = << [id |-> "e0", type |-> "line"] >>
  /\ drawTimer["A"] = << drawings["A"] >>
  /\ drawings["B"] = DrawnDoc.drawings
  /\ drawTimer["B"] = << >>

\* ------------------------------------------------------------------------
\* Specification of alive/dead: the room holds a second spawn group and the
\* roster spread over the columns; a commander and a viewer choose their
\* spawn group and toggle entities between alive and dead
\* ------------------------------------------------------------------------
SpawnDoc ==
  [groups |-> DEFAULT_GROUPS \o << [id |-> "n1", label |-> "Neuer Spawn", isSpawn |-> TRUE, color |-> NoColor] >>,
   columns |-> [g \in GroupIds |->
                  CASE g = "unassigned" -> << "p3" >>
                    [] g = "g1" -> << "p2", "p1" >>
                    [] OTHER -> << >>]]

InitAlive ==
  /\ role = RolesBoard
  /\ board = [c \in Clients |-> InitBoard]
  /\ groupRoles = [c \in Clients |-> EmptyFn]
  /\ tokens = [c \in Clients |-> << >>]
  /\ orderMarkers = [c \in Clients |-> << >>]
  /\ aliveState = [c \in Clients |-> EmptyFn]
  /\ spawnState = [c \in Clients |-> EmptyFn]
  /\ maps = [c \in Clients |-> DEFAULT_MAPS]
  /\ pois = [c \in Clients |-> << >>]
  /\ activeMapId = [c \in Clients |-> "main"]
  /\ notesText = [c \in Clients |-> ""]
  /\ notesTimer = [c \in Clients |-> << >>]
  /\ drawings = [c \in Clients |-> EmptyFn]
  /\ drawTimer = [c \in Clients |-> << >>]
  /\ store = SpawnDoc
  /\ outbox = [c \in Clients |-> << >>]
  /\ calls = [c \in Clients |-> << >>]
  /\ snapPending = [c \in Clients |-> TRUE]
  /\ ops = 0
  /\ burst = [c \in Clients |-> NoBurst]
  /\ InitView

NextAlive ==
  \/ \E c \in Clients, sp \in {"spawn1", "n1"} : Gesture(setSpawn(c, SelfOf[c], sp))
  \/ \E pl \in {"p1", "p2"} : Gesture(toggleAlive("A", pl))
  \/ \E pl \in {"p1", "p2"} : Gesture(toggleAlive("B", pl))
  \/ \E c \in Clients : Background(onSnapshot(c))
  \/ \E c \in Clients : Background(Deliver(c))

SpecAlive == InitAlive /\ [][NextAlive]_vars

\* the client may toggle the entity
MayToggle(c, pl) == pl = SelfOf[c] \/ canWrite(c)

\* the entity is dead in the client's aliveState
IsDead(c, pl) == pl \in DOMAIN aliveState[c] /\ aliveState[c][pl] = "dead"

\* C12: alive/dead relocation is one-way.  Toggling an alive entity whose
\* spawnState names a spawn group s of the board removes its id from every
\* column and prepends it to the column of s; toggling a dead entity back to
\* alive flips only the alive flag and leaves every column unchanged.
C12_OneWayRelocation ==
  [][ \A c \in Clients, pl \in {"p1", "p2"} :
        (MayToggle(c, pl) /\ outbox'[c] # outbox[c] /\ toggleAlive(c, pl)) =>
           LET cols == board[c].columns
               sp == IF pl \in DOMAIN spawnState[c] THEN spawnState[c][pl] ELSE ""
           IN  IF IsDead(c, pl)
               THEN /\ board'[c] = board[c]
                    /\ aliveState'[c] = Put(aliveState[c], pl, "alive")
               ELSE /\ aliveState'[c] = Put(aliveState[c], pl, "dead")
                    /\ (sp # "" /\ sp \in groupIdsOf(board[c])) =>
                          /\ board'[c].groups = board[c].groups
                          /\ DOMAIN board'[c].columns = DOMAIN cols
                          /\ board'[c].columns[sp] = << pl >> \o Without(cols[sp], pl)
                          /\ \A g \in DOMAIN cols \ {sp} :
                                board'[c].columns[g] = Without(cols[g], pl)
    ]_vars

\* p1 was in g1, chose the spawn group n1, died and was revived: alive
\* again, and still in the column of n1
C12_Witness ==
  /\ ops = 3
  /\ "p1" \in DOMAIN spawnState["A"] /\ spawnState["A"]["p1"] = "n1"
  /\ "p1" \in DOMAIN aliveState["A"] /\ aliveState["A"]["p1"] = "alive"
  /\ Col(board["A"].columns, "n1") = << "p1" >>
  /\ Col(board["A"].columns, "g1") = << "p2" >>

\* ------------------------------------------------------------------------
\* A client that joins a room whose document was written earlier: the local
\* state is that of the useState initialisers and the first snapshot is due
\* ------------------------------------------------------------------------
InitRoom(r, document) ==
  /\ role = r
  /\ board = [c \in Clients |-> InitBoard]
  /\ groupRoles = [c \in Clients |-> EmptyFn]
  /\ tokens = [c \in Clients |-> << >>]
  /\ orderMarkers = [c \in Clients |-> << >>]
  /\ aliveState = [c \in Clients |-> EmptyFn]
  /\ spawnState = [c \in Clients |-> EmptyFn]
  /\ maps = [c \in Clients |-> DEFAULT_MAPS]
  /\ pois = [c \in Clients |-> << >>]
  /\ activeMapId = [c \in Clients |-> "main"]
  /\ notesText = [c \in Clients |-> ""]
  /\ notesTimer = [c \in Clients |-> << >>]
  /\ drawings = [c \in Clients |-> EmptyFn]
  /\ drawTimer = [c \in Clients |-> << >>]
  /\ store = document
  /\ outbox = [c \in Clients |-> << >>]
  /\ calls = [c \in Clients |-> << >>]
  /\ snapPending = [c \in Clients |-> document # NoDoc]
  /\ ops = 0
  /\ burst = [c \in Clients |-> NoBurst]
  /\ InitView

\* ------------------------------------------------------------------------
\* Specification of the deletion of groups: the room holds members, tokens
\* and roles of g1 and g2; one commander deletes groups and moves an entity,
\* the other places a token and names a deputy
\* ------------------------------------------------------------------------
CascadeDoc ==
  [groups |-> DEFAULT_GROUPS,
   columns |-> [g \in {DEFAULT_GROUPS[i].id : i \in 1..Len(DEFAULT_GROUPS)} |->
                  CASE g = "unassigned" -> << "p3" >>
                    [] g = "g1" -> << "p1", "p2" >>
                    [] OTHER -> << >>],
   tokens |-> << [groupId |-> "g1", x |-> 0, y |-> 0, mapId |-> "main"],
                 [groupId |-> "g2", x |-> 2, y |-> 2, mapId |-> "main"],
                 [groupId |-> "g1", x |-> 2, y |-> 0, mapId |-> "sub1"] >>,
   groupRoles |-> [g \in {"g1", "g2"} |->
                     IF g = "g1" THEN [leader |-> "p1", deputy |-> "p2"]
                     ELSE [leader |-> "p3", deputy |-> None]]]

InitCascade == InitRoom(RolesShared, CascadeDoc)

NextCascade ==
  \/ \E g \in {"g1", "g2", "unassigned"} : Gesture(deleteGroup("A", g))
  \/ Gesture(commitToken("B", "g1", [x |-> 2, y |-> 2], "main"))
  \/ Gesture(setGroupRole("B", "g2", "p1", "deputy"))
  \/ Gesture(onDragEnd("A", "p3", "g1"))
  \/ \E c \in Clients : Background(onSnapshot(c))
  \/ \E c \in Clients : Background(Deliver(c))

SpecCascade == InitCascade /\ [][NextCascade]_vars

\* C13: group deletion cascade.  deleteGroup(g) with g other than unassigned
\* removes g from the groups and its column, appends the former members of g
\* to unassigned, removes every token of g on every map, leaves the tokens of
\* the other groups unchanged, and clears groupRoles[g].
C13_DeleteCascade ==
  [][ \A c \in Clients, g \in {"g1", "g2"} :
        (canWrite(c) /\ outbox'[c] # outbox[c] /\ deleteGroup(c, g)) =>
           LET b == board[c]
               nb == board'[c]
           IN  /\ nb.groups = SelectSeq(b.groups, LAMBDA x : x.id # g)
               /\ DOMAIN nb.columns = DOMAIN b.columns \ {g}
               /\ Col(nb.columns, "unassigned") = Col(b.columns, "unassigned") \o Col(b.columns, g)
               /\ \A h \in DOMAIN b.columns \ {g, "unassigned"} : nb.columns[h] = b.columns[h]
               /\ \A i \in 1..Len(tokens'[c]) : tokens'[c][i].groupId # g
               /\ tokens'[c] = SelectSeq(tokens[c], LAMBDA t : t.groupId # g)
               /\ g \notin DOMAIN groupRoles'[c]
               /\ \A h \in DOMAIN groupRoles[c] \ {g} :
                     h \in DOMAIN groupRoles'[c] /\ groupRoles'[c][h] = groupRoles[c][h]
    ]_vars

\* client A has taken over the room and deleted g1: its members follow p3 in
\* unassigned, only the token of g2 is left, and only g2 has roles
C13_Witness ==
  /\ "g1" \notin groupIdsOf(board["A"])
  /\ "g1" \notin DOMAIN board["A"].columns
  /\ board["A"].columns["unassigned"] = << "p3", "p1", "p2" >>
  /\ tokens["A"] = << [groupId |-> "g2", x |-> 2, y |-> 2, mapId |-> "main"] >>
  /\ DOMAIN groupRoles["A"] = {"g2"}

InitPartial == InitWith(RolesShared)

NextPartial ==
  \/ Background(applyPlayerList("A", Roster))
  \/ Gesture(commitToken("A", "g1", [x |-> 0, y |-> 0], "main"))
  \/ Gesture(upsertOrderMarker("A", "g1", [x |-> 2, y |-> 2], "main"))
  \/ Gesture(toggleAlive("A", "p1"))
  \/ \E text \in Texts : Gesture(handleNotesChange("B", text))
  \/ \E el \in DrawEls : Gesture(addDrawElement("B", el))
  \/ Background(notesTimerFire("B"))
  \/ Background(drawTimerFire("B"))
  \/ \E c \in Clients : Background(onSnapshot(c))
  \/ \E c \in Clients : Background(Deliver(c))

SpecPartial == InitPartial /\ [][NextPartial]_vars

\* C15: malformed snapshot tolerance.  For every expected top-level field
\* (columns, tokens, orderMarkers, aliveState, spawnState, maps, pois,
\* notesText, groupRoles, drawings), a snapshot that lacks the field leaves
\* the corresponding local slice unchanged.
C15_MissingFieldKept ==
  [][ \A c \in Clients :
        (snapPending[c] /\ store # NoDoc /\ onSnapshot(c)) =>
           /\ "columns" \notin DOMAIN store => board'[c].columns = board[c].columns
           /\ "tokens" \notin DOMAIN store => tokens'[c] = tokens[c]
           /\ "orderMarkers" \notin DOMAIN store => orderMarkers'[c] = orderMarkers[c]
           /\ "aliveState" \notin DOMAIN store => aliveState'[c] = aliveState[c]
           /\ "spawnState" \notin DOMAIN store => spawnState'[c] = spawnState[c]
           /\ "maps" \notin DOMAIN store => maps'[c] = maps[c]
           /\ "pois" \notin DOMAIN store => pois'[c] = pois[c]
           /\ "notesText" \notin DOMAIN store => notesText'[c] = notesText[c]
           /\ "groupRoles" \notin DOMAIN store => groupRoles'[c] = groupRoles[c]
           /\ "drawings" \notin DOMAIN store => drawings'[c] = drawings[c]
    ]_vars

\* ------------------------------------------------------------------------
\* Specification of the default groups: the room document comes from
\* elsewhere and its groups field is absent, empty, not an array, or a
\* proper sequence; two commanders take it over and add, rename, reorder
\* and delete groups
\* ------------------------------------------------------------------------
DefaultIds == {DEFAULT_GROUPS[i].id : i \in 1..Len(DEFAULT_GROUPS)}

SomeColumns == [g \in {"unassigned", "g1", "n1"} |-> IF g = "g1" THEN << "p1" >> ELSE << >>]

ForeignDocs ==
  { [columns |-> SomeColumns],
    [groups |-> << >>, columns |-> SomeColumns],
    [groups |-> NotArray, columns |-> SomeColumns],
    [groups |-> << DEFAULT_GROUPS[1], DEFAULT_GROUPS[2] >>, columns |-> SomeColumns] }

InitFallback == \E d \in ForeignDocs : InitRoom(RolesShared, d)

NextFallback ==
  \/ Gesture(addGroup("A", FALSE))
  \/ Gesture(renameGroup("A", "g1", "L0"))
  \/ \E g \in {"g1", "g2", "unassigned"} : Gesture(deleteGroup("B", g))
  \/ \E g \in {"g1", "unassigned"} : Gesture(onDragEnd("B", "g2", g))
  \/ \E c \in Clients : Background(onSnapshot(c))
  \/ \E c \in Clients : Background(Deliver(c))

SpecFallback == InitFallback /\ [][NextFallback]_vars

\* the document has no usable groups: the field is absent, not an array, or
\* an empty array
NoGroups(data) ==
  \/ "groups" \notin DOMAIN data
  \/ data.groups = NotArray
  \/ data.groups = << >>

\* C16: default-group fallback.  After a snapshot whose groups field is
\* absent, not an array or an empty array has been applied, the groups of
\* the local board are the built-in default groups and the board has one
\* column per default group; and the groups of a local board are never empty.
C16_DefaultGroups ==
  /\ [](\A c \in Clients : Len(board[c].groups) > 0)
  /\ [][ \A c \in Clients :
           (snapPending[c] /\ store # NoDoc /\ NoGroups(store) /\ onSnapshot(c)) =>
              /\ board'[c].groups = DEFAULT_GROUPS
              /\ DOMAIN board'[c].columns = DefaultIds
     ]_vars

\* the document holds an empty groups array and a member of g1; client B
\* has applied it and shows the default groups with that member in g1
C16_Witness ==
  /\ "groups" \in DOMAIN store /\ store.groups = << >>
  /\ ~snapPending["B"]
  /\ board["B"].groups = DEFAULT_GROUPS
  /\ board["B"].columns = [g \in DefaultIds |-> IF g = "g1" THEN << "p1" >> ELSE << >>]

\* ------------------------------------------------------------------------
\* Specification of the drags: a commander merges a roster that does not
\* list p3 and drags entities and groups onto entities, groups and nothing
\* ------------------------------------------------------------------------
ShortRoster == << "p1", "p2" >>
DragFrom == {"p1", "p3", "g1", "unassigned"}
DragOnto == {"p2", "p3", "g1", "g2", "unassigned", None}

InitDrag == InitWith(RolesBoard)

NextDrag ==
  \/ Background(applyPlayerList("A", ShortRoster))
  \/ \E a \in DragFrom, o \in DragOnto : Gesture(onDragEnd("A", a, o))
  \/ \E c \in Clients : Background(onSnapshot(c))
  \/ Background(Deliver("A"))

SpecDrag == InitDrag /\ [][NextDrag]_vars

\* something the drag names is not found: activeId is in no column, or there
\* is no drop target, or the drop target is neither a group nor an item of
\* a column
NotFound(c, a, o) ==
  \/ findContainer(board[c].columns, a) = {}
  \/ o = None
  \/ (o \notin groupIdsOf(board[c]) /\ findContainer(board[c].columns, o) = {})

\* the drag is that of a group other than unassigned onto a group
IsGroupDrop(c, a, o) ==
  /\ a \in groupIdsOf(board[c]) \ {"unassigned"}
  /\ o \in groupIdsOf(board[c])

\* C17 as stated: if activeId is in no column, or the drop target is neither
\* a group id nor an item held by some column, or there is no drop target,
\* onDragEnd leaves the board unchanged and issues no remote write.
C17_NotFoundNoOp ==
  [][ \A c \in Clients, a \in DragFrom, o \in DragOnto :
        (NotFound(c, a, o) /\ onDragEnd(c, a, o)) =>
           board'[c] = board[c] /\ outbox'[c] = outbox[c] ]_vars

\* C17 as amended: the same, unless the drag is that of a group other than
\* unassigned dropped on a group, which reorders the groups.
C17_NotFoundNoOpButGroups ==
  [][ \A c \in Clients, a \in DragFrom, o \in DragOnto :
        (NotFound(c, a, o) /\ ~IsGroupDrop(c, a, o) /\ onDragEnd(c, a, o)) =>
           board'[c] = board[c] /\ outbox'[c] = outbox[c] ]_vars

\* three drags have been made with p3 unknown to the board, and the board is
\* still the merged roster with nothing written
C17_Witness ==
  /\ ops = 3
  /\ board["A"].groups = DEFAULT_GROUPS
  /\ board["A"].columns["unassigned"] = << "p1", "p2" >>
  /\ outbox["A"] = << >>
  /\ store = NoDoc

\* ------------------------------------------------------------------------
\* Failing writes: client A places and commits markers, recolors a group
\* and edits the notes; the store may reject any write in flight
\* ------------------------------------------------------------------------
\* the store rejects the oldest in-flight write of client c
\*   pushTokensOnly / pushOrderMarkersOnly:
\*       try { await updateDoc(..) } catch { await setDoc(.., { merge: true }) }
\*     a rejected updateDoc issues the same fields again with setDoc; a
\*     rejected setDoc of the catch block rejects the promise of the call,
\*     which no caller awaits or catches
\*   pushAll:  try { await setDoc(..) } catch (err) { console.error(..) }
\*   notes, drawings:  setDoc(..).catch(console.error)
Fail(c) ==
  /\ outbox[c] # << >>
  /\ IF Head(calls[c]) = "try updateDoc"
       THEN /\ outbox' = [outbox EXCEPT ![c] = Tail(@) \o << Head(@) >>]
            /\ calls' = [calls EXCEPT ![c] = Tail(@) \o << "catch setDoc" >>]
       ELSE /\ outbox' = [outbox EXCEPT ![c] = Tail(@)]
            /\ calls' = [calls EXCEPT ![c] = Tail(@)]
  /\ UNCHANGED << role, board, groupRoles, tokens, orderMarkers, aliveState, spawnState,
                  maps, pois, activeMapId, notesText, notesTimer, drawings, drawTimer,
                  store, snapPending, burst >>

InitFail == InitWith(RolesShared)

NextFail ==
  \/ Gesture(commitToken("A", "g1", [x |-> 0, y |-> 0], "main"))
  \/ Gesture(upsertOrderMarker("A", "g1", [x |-> 2, y |-> 2], "main"))
  \/ Gesture(setGroupColor("A", "g1", "3b82f6"))
  \/ \E text \in Texts : Gesture(handleNotesChange("A", text))
  \/ Background(notesTimerFire("A"))
  \/ \E c \in Clients : Background(onSnapshot(c))
  \/ \E c \in Clients : Background(Deliver(c))
  \/ \E c \in Clients : Background(Fail(c))

SpecFail == InitFail /\ [][NextFail]_vars

\* the state a client predicts locally
LocalState(c) ==
  << board[c], groupRoles[c], tokens[c], orderMarkers[c], aliveState[c], spawnState[c],
     maps[c], pois[c], notesText[c], drawings[c] >>

\* C18: write failure handling.  When a remote write of a client fails, the
\* client's optimistic local state is left exactly as it was, the failure
\* does not leave the call that issued the write, and the write is not
\* issued again: the failed write is gone from the writes in flight.
C18_FailureSwallowed ==
  [][ \A c \in Clients :
        Fail(c) =>
          /\ LocalState(c)' = LocalState(c)
          /\ Head(calls[c]) # "catch setDoc"
          /\ outbox'[c] = Tail(outbox[c]) ]_vars


\* ------------------------------------------------------------------------
\* The reserved group: commander A deletes and recolors groups and drags
\* group columns onto other groups; viewer B follows the room
\* ------------------------------------------------------------------------
ReservedTargets == {"unassigned", "g1", "g2"}

InitReserved == InitWith(RolesBoard)

NextReserved ==
  \/ \E id \in ReservedTargets : Gesture(deleteGroup("A", id))
  \/ \E id \in ReservedTargets, hex \in Colors : Gesture(setGroupColor("A", id, hex))
  \/ \E activeId \in ReservedTargets, overId \in ReservedTargets :
        Gesture(onDragEnd("A", activeId, overId))
  \/ \E c \in Clients : Background(onSnapshot(c))
  \/ \E c \in Clients : Background(Deliver(c))

SpecReserved == InitReserved /\ [][NextReserved]_vars

\* C19: the reserved group unassigned is protected.  After any sequence of
\* deleteGroup, setGroupColor and group drags dropped on any group
\* (unassigned included), the groups sequence of every client still
\* contains unassigned, with the color and at the index it started with.
C19_UnassignedProtected ==
  \A c \in Clients :
    LET i == GroupIndex(board[c].groups, "unassigned")
    IN  /\ i = GroupIndex(DEFAULT_GROUPS, "unassigned")
        /\ board[c].groups[i].color = DEFAULT_GROUPS[i].color


\* the ids of a groups sequence, in order
GroupOrder(groups) == [i \in 1..Len(groups) |-> groups[i].id]

\* C26: group reorder frame.  When a writer drops a group other than
\* unassigned onto another group, the dragged group takes the index the
\* target had, the other groups keep their relative order, and nothing but
\* the groups sequence changes: columns and every other local slice stay.
C26_GroupReorderFrame ==
  [][ \A a \in ReservedTargets \ {"unassigned"}, o \in ReservedTargets :
        ( /\ a # o
          /\ {a, o} \subseteq groupIdsOf(board["A"])
          /\ onDragEnd("A", a, o) ) =>
            /\ GroupIndex(board'["A"].groups, a) = GroupIndex(board["A"].groups, o)
            /\ SelectSeq(board'["A"].groups, LAMBDA g : g.id # a)
                 = SelectSeq(board["A"].groups, LAMBDA g : g.id # a)
            /\ board'["A"].columns = board["A"].columns
            /\ << groupRoles, tokens, orderMarkers, aliveState, spawnState, maps, pois,
                  notesText, drawings >>'
                 = << groupRoles, tokens, orderMarkers, aliveState, spawnState, maps, pois,
                      notesText, drawings >> ]_vars

\* g2 was dragged two places to the front, onto the first group
C26_Witness ==
  /\ GroupOrder(board["A"].groups) = << "g2", "unassigned", "g1", "g3", "spawn1" >>
  /\ outbox["A"] # << >>
  /\ GroupOrder(Head(outbox["A"]).groups) = GroupOrder(board["A"].groups)


\* ------------------------------------------------------------------------
\* Group roles: commander A assigns and clears the leader and the deputy
\* of group g1, commander B makes p1 the deputy of a group
\* ------------------------------------------------------------------------
RoleGroups == {"g1", "g2"}
RoleHolders == {"p1", "p2"}
RoleSlots == {"leader", "deputy"}

InitRoles == InitWith(RolesShared)

NextRoles ==
  \/ \E p \in RoleHolders, r \in RoleSlots \cup {None} :
        Gesture(setGroupRole("A", "g1", p, r))
  \/ \E g \in RoleGroups : Gesture(setGroupRole("B", g, "p1", "deputy"))
  \/ \E c \in Clients : Background(onSnapshot(c))
  \/ \E c \in Clients : Background(Deliver(c))

SpecRoles == InitRoles /\ [][NextRoles]_vars

OtherSlot(r) == IF r = "leader" THEN "deputy" ELSE "leader"

\* no group of the map has one entity in both slots
Exclusive(gr) ==
  \A g \in DOMAIN gr : gr[g].leader = None \/ gr[g].leader # gr[g].deputy

DrawTools == {"pointer", "pen", "line", "eraser"}

\* canWriteTokens={canWrite && drawTool === "pointer"}, canDraw={canWrite}
canWriteTokens(c) == canWrite(c) /\ drawTool[c] = "pointer"
canDraw(c) == canWrite(c)

\* the container's handlers: if (drawTool !== "pointer" && canDraw) return;
bgOff(c) == drawTool[c] # "pointer" /\ canDraw(c)

\* visibleTokens, visibleOrderMarkers, markersOnActive
visibleToken(c, gId) == TokenIndex(tokens[c], gId, activeMapId[c]) # 0
visibleOrderMarker(c, gId) == MarkerIndex(orderMarkers[c], gId, activeMapId[c]) # 0
markersOnActive(c) ==
  IF activeMapId[c] = "main"
  THEN {maps[c][i].id : i \in 1..Len(maps[c])} \ {"main"}
  ELSE {pois[c][i].id : i \in {j \in 1..Len(pois[c]) : pois[c][j].parentMapId = activeMapId[c]}}

\* the frame of an event that touches ZoomableMap only
ZoomOnly(c, z, target) ==
  /\ zoomMap' = [zoomMap EXCEPT ![c] = z]
  /\ pointer' = [pointer EXCEPT ![c] = target]
  /\ UNCHANGED << drawTool, drawLayer, armed >>

\* DrawingToolbar (rendered if canDraw): setTool
setDrawTool(c, t) ==
  /\ pointer[c] = "up"
  /\ canDraw(c)
  /\ drawTool' = [drawTool EXCEPT ![c] = t]
  /\ UNCHANGED << zoomMap, drawLayer, armed, pointer >>
  /\ NoOp

\* onBgDown: if (tokenDrag || markerDrag) return; setPanning(true); panStart = ...
onBgDown(c, p) ==
  LET z == zoomMap[c]
  IN  IF z.tokenDrag # None \/ z.markerDrag # None THEN z
      ELSE [z EXCEPT !.panning = TRUE,
                     !.panStart = [x |-> p.x, y |-> p.y, ox |-> z.offset.x, oy |-> z.offset.y]]

\* pointer-down that reaches the container (on the background, or bubbling
\* from an element whose handler returned before stopPropagation)
containerDown(c, p) ==
  /\ ZoomOnly(c, IF bgOff(c) THEN zoomMap[c] ELSE onBgDown(c, p), "bg")
  /\ NoOp

bgPointerDown(c, p) ==
  /\ pointer[c] = "up"
  /\ drawTool[c] = "pointer"
  /\ containerDown(c, p)

\* token element onPointerDown
tokenPointerDown(c, gId, p) ==
  /\ pointer[c] = "up"
  /\ drawTool[c] = "pointer"
  /\ visibleToken(c, gId)
  /\ IF ~canWriteTokens(c) THEN containerDown(c, p)
     ELSE /\ ZoomOnly(c, [zoomMap[c] EXCEPT !.tokenDrag = gId, !.lastTokenPos = NoPos], "token")
          /\ NoOp

\* order marker element onPointerDown
orderPointerDown(c, gId, p) ==
  /\ pointer[c] = "up"
  /\ drawTool[c] = "pointer"
  /\ visibleOrderMarker(c, gId)
  /\ IF ~canWriteTokens(c) THEN containerDown(c, p)
     ELSE /\ ZoomOnly(c, [zoomMap[c] EXCEPT !.orderMarkerDrag = gId,
                                            !.lastOrderMarkerPos = NoPos], "order")
          /\ NoOp

\* map / POI marker element onPointerDown: stopPropagation, then the drag
\* starts if isAdmin
markerPointerDown(c, id) ==
  /\ pointer[c] = "up"
  /\ drawTool[c] = "pointer"
  /\ id \in markersOnActive(c)
  /\ ZoomOnly(c, IF isAdmin(c)
                 THEN [zoomMap[c] EXCEPT !.markerDrag = id, !.lastMarkerPos = NoPos]
                 ELSE zoomMap[c], "marker")
  /\ NoOp

\* moveOrderMarkerLocal on a sequence of order markers
movedOrder(prev, gId, xy, mapId) ==
  LET i == MarkerIndex(prev, gId, mapId)
  IN  IF i = 0 THEN prev ELSE [prev EXCEPT ![i] = [@ EXCEPT !.x = xy.x, !.y = xy.y]]

\* onBgMove
onBgMove(c, p) ==
  LET z == zoomMap[c]
      pan == z.panning /\ z.tokenDrag = None /\ z.markerDrag = None
      tok == z.tokenDrag # None /\ canWriteTokens(c)
      mrk == z.markerDrag # None
      ord == z.orderMarkerDrag # None /\ canWriteTokens(c)
  IN  /\ zoomMap' = [zoomMap EXCEPT ![c] =
            [z EXCEPT !.offset = IF pan THEN [x |-> z.panStart.ox + p.x - z.panStart.x,
                                              y |-> z.panStart.oy + p.y - z.panStart.y]
                                 ELSE @,
                      !.lastTokenPos = IF tok THEN p ELSE @,
                      !.lastMarkerPos = IF mrk THEN p ELSE @,
                      !.lastOrderMarkerPos = IF ord THEN p ELSE @]]
      /\ tokens' = [tokens EXCEPT ![c] =
            IF tok THEN upsert(@, z.tokenDrag, p, activeMapId[c]) ELSE @]
      /\ orderMarkers' = [orderMarkers EXCEPT ![c] =
            IF ord THEN movedOrder(@, z.orderMarkerDrag, p, activeMapId[c]) ELSE @]
      /\ UNCHANGED << drawTool, drawLayer, armed, pointer >>
      /\ UNCHANGED << uiVars, board, groupRoles, aliveState, spawnState, maps, pois,
                      noteVars, drawVars, netVars, outbox, calls >>

\* handleCommitMarker
handleCommitMarker(c, id, xy) ==
  IF \E i \in 1..Len(maps[c]) : maps[c][i].id = id
  THEN moveMapMarker(c, id, xy)
  ELSE movePOIMarker(c, id, xy)

\* onBgUp.  One pointer presses one element, so at most one of the three
\* drags is set (OneDrag below) and at most one commit is made.
onBgUp(c) ==
  LET z == zoomMap[c]
      tok == z.tokenDrag # None /\ z.lastTokenPos # NoPos /\ canWriteTokens(c)
      mrk == z.markerDrag # None /\ z.lastMarkerPos # NoPos
      ord == z.orderMarkerDrag # None /\ z.lastOrderMarkerPos # NoPos /\ canWriteTokens(c)
  IN  /\ ZoomOnly(c, [z EXCEPT !.panning = FALSE,
                               !.tokenDrag = None, !.lastTokenPos = NoPos,
                               !.markerDrag = None, !.lastMarkerPos = NoPos,
                               !.orderMarkerDrag = None, !.lastOrderMarkerPos = NoPos], "up")
      /\ CASE tok /\ ~mrk /\ ~ord ->
                commitToken(c, z.tokenDrag, z.lastTokenPos, activeMapId[c])
           [] ~tok /\ mrk /\ ~ord ->
                handleCommitMarker(c, z.markerDrag, z.lastMarkerPos)
           [] ~tok /\ ~mrk /\ ord ->
                upsertOrderMarker(c, z.orderMarkerDrag, z.lastOrderMarkerPos, activeMapId[c])
           [] ~tok /\ ~mrk /\ ~ord -> NoOp
           [] OTHER -> FALSE

\* pointer-move and pointer-up reach the container directly or bubbling
\* from the marker that captured the pointer
containerMove(c, p) ==
  /\ pointer[c] \in {"bg", "token", "order", "marker"}
  /\ IF bgOff(c) THEN UNCHANGED viewVars /\ NoOp ELSE onBgMove(c, p)

containerUp(c) ==
  /\ pointer[c] \in {"bg", "token", "order", "marker"}
  /\ IF bgOff(c) THEN ZoomOnly(c, zoomMap[c], "up") /\ NoOp ELSE onBgUp(c)

\* onWheel: setOffset((o) => ({ x: o.x - e.deltaX * 0.8, y: o.y - e.deltaY * 0.8 }))
WheelDeltas == {-1, 1}

onWheel(c, dy) ==
  /\ zoomMap' = [zoomMap EXCEPT ![c].offset.y = @ - dy]
  /\ UNCHANGED << drawTool, drawLayer, armed, pointer >>
  /\ NoOp

\* eraseAt: the first element of the active map context that p hits.  The
\* threshold is a few pixels, less than the distance of two positions of XY.
Hit(el, p) ==
  IF el.type = "path" THEN \E i \in 1..Len(el.d) : el.d[i] = p
  ELSE el.x1 + el.x2 = 2 * p.x /\ el.y1 + el.y2 = 2 * p.y

eraseAt(c, p) ==
  LET els == Els(drawings[c], activeMapId[c])
      hits == {i \in 1..Len(els) : Hit(els[i], p)}
  IN  IF hits = {} THEN NoOp
      ELSE removeDrawElement(c, els[CHOOSE i \in hits : \A j \in hits : i <= j].id)

\* the frame of an event that touches DrawingLayer only
LayerOnly(c, d, target) ==
  /\ drawLayer' = [drawLayer EXCEPT ![c] = d]
  /\ pointer' = [pointer EXCEPT ![c] = target]
  /\ UNCHANGED << drawTool, zoomMap, armed >>

\* DrawingLayer onPointerDown.  The canvas takes the pointer events of the
\* map while a tool other than "pointer" is selected (pointerEvents auto).
canvasPointerDown(c, p) ==
  LET d == drawLayer[c]
  IN  /\ pointer[c] = "up"
      /\ drawTool[c] # "pointer"
      /\ IF ~canDraw(c) THEN containerDown(c, p)
         ELSE CASE drawTool[c] = "eraser" -> LayerOnly(c, d, "canvas") /\ eraseAt(c, p)
                [] drawTool[c] = "pen" ->
                     /\ LayerOnly(c, [d EXCEPT !.drawing = TRUE, !.pathPoints = << p >>], "canvas")
                     /\ NoOp
                [] drawTool[c] = "line" ->
                     LayerOnly(c, [d EXCEPT !.lineStart = p], "canvas") /\ NoOp

\* DrawingLayer onPointerMove; e.buttons === 1 while the pointer is pressed
canvasPointerMove(c, p) ==
  LET d == [drawLayer[c] EXCEPT !.lastPos = p]
  IN  /\ pointer[c] \in {"up", "canvas"}
      /\ drawTool[c] # "pointer"
      /\ canDraw(c)
      /\ CASE drawTool[c] = "eraser" /\ pointer[c] = "canvas" ->
                LayerOnly(c, d, pointer[c]) /\ eraseAt(c, p)
           [] drawTool[c] = "pen" /\ d.drawing ->
                /\ Len(d.pathPoints) < MaxEdits
                /\ LayerOnly(c, [d EXCEPT !.pathPoints = Append(@, p)], pointer[c])
                /\ NoOp
           [] OTHER -> LayerOnly(c, d, pointer[c]) /\ NoOp

\* an onPointerUp that commits the pen stroke however few points it has
canvasPointerUp_anyLength(c, p) ==
  LET d == drawLayer[c]
  IN  /\ pointer[c] = "canvas"
      /\ canDraw(c)
      /\ CASE drawTool[c] = "pen" /\ d.drawing ->
                /\ LayerOnly(c, [d EXCEPT !.drawing = FALSE, !.pathPoints = << >>], "up")
                /\ \E id \in FreshDrawIds :
                     addDrawElement(c, [id |-> id, type |-> "path", d |-> d.pathPoints])
           [] drawTool[c] = "line" /\ d.lineStart # NoPos ->
                /\ LayerOnly(c, [d EXCEPT !.lineStart = NoPos], "up")
                /\ \E id \in FreshDrawIds :
                     addDrawElement(c, [id |-> id, type |-> "line",
                                        x1 |-> d.lineStart.x, y1 |-> d.lineStart.y,
                                        x2 |-> p.x, y2 |-> p.y])
           [] OTHER -> LayerOnly(c, d, "up") /\ NoOp

\* DrawingLayer onPointerUp
canvasPointerUp(c, p) ==
  LET d == drawLayer[c]
  IN  /\ pointer[c] = "canvas"
      /\ canDraw(c)
      /\ CASE drawTool[c] = "pen" /\ d.drawing ->
                /\ LayerOnly(c, [d EXCEPT !.drawing = FALSE, !.pathPoints = << >>], "up")
                /\ IF Len(d.pathPoints) > 1
                   THEN \E id \in FreshDrawIds :
                          addDrawElement(c, [id |-> id, type |-> "path", d |-> d.pathPoints])
                   ELSE NoOp
           [] drawTool[c] = "line" /\ d.lineStart # NoPos ->
                /\ LayerOnly(c, [d EXCEPT !.lineStart = NoPos], "up")
                /\ \E id \in FreshDrawIds :
                     addDrawElement(c, [id |-> id, type |-> "line",
                                        x1 |-> d.lineStart.x, y1 |-> d.lineStart.y,
                                        x2 |-> p.x, y2 |-> p.y])
           [] OTHER -> LayerOnly(c, d, "up") /\ NoOp

\* ------------------------------------------------------------------------
\* Gestures on the map: the room holds a token and an order marker of g1,
\* a sub-map marker and a pen stroke on the main map; admin A drags them,
\* draws and erases
\* ------------------------------------------------------------------------
RolesGesture == [c \in Clients |-> IF c = "A" THEN "admin" ELSE "viewer"]

GestureDoc ==
  [groups |-> DEFAULT_GROUPS,
   columns |-> [g \in {DEFAULT_GROUPS[i].id : i \in 1..Len(DEFAULT_GROUPS)} |-> << >>],
   tokens |-> << [groupId |-> "g1", x |-> 0, y |-> 0, mapId |-> "main"] >>,
   orderMarkers |-> << [groupId |-> "g1", x |-> 2, y |-> 2, mapId |-> "main"] >>,
   maps |-> Append(DEFAULT_MAPS, [id |-> "sub1", label |-> "Neue Karte", image |-> "", x |-> 1, y |-> 1]),
   drawings |-> [m \in {"main"} |->
                   << [id |-> "e1", type |-> "path", d |-> << [x |-> 0, y |-> 0], [x |-> 2, y |-> 2] >>] >>]]

InitGesture == InitRoom(RolesGesture, GestureDoc)

\* the choice of a tool and a pointer-down are counted gestures; the
\* pointer events that follow a pointer-down are not
PointerDown(A) == ops < MaxOps /\ A /\ ops' = ops + 1
PointerEvent(A) == A /\ UNCHANGED ops

NextGesture ==
  \/ \E t \in DrawTools : PointerDown(setDrawTool("A", t))
  \/ PointerDown(tokenPointerDown("A", "g1", [x |-> 0, y |-> 0]))
  \/ PointerDown(orderPointerDown("A", "g1", [x |-> 2, y |-> 2]))
  \/ PointerDown(markerPointerDown("A", "sub1"))
  \/ \E p \in XY : PointerDown(canvasPointerDown("A", p))
  \/ \E p \in XY : PointerEvent(containerMove("A", p))
  \/ PointerEvent(containerUp("A"))
  \/ \E p \in XY : PointerEvent(pointer["A"] = "canvas" /\ canvasPointerMove("A", p))
  \/ \E p \in XY : PointerEvent(canvasPointerUp("A", p))
  \/ Background(drawTimerFire("A"))
  \/ Background(onSnapshot("A"))
  \/ Background(Deliver("A"))

SpecGesture == InitGesture /\ [][NextGesture]_vars

\* a marker drag that has moved, or a pen or line gesture that will commit
DragInProgress(c) ==
  \/ pointer[c] = "token" /\ zoomMap[c].lastTokenPos # NoPos
  \/ pointer[c] = "order" /\ zoomMap[c].lastOrderMarkerPos # NoPos
  \/ pointer[c] = "marker" /\ zoomMap[c].lastMarkerPos # NoPos
  \/ pointer[c] = "canvas" /\ drawTool[c] = "pen" /\ Len(drawLayer[c].pathPoints) > 1
  \/ pointer[c] = "canvas" /\ drawTool[c] = "line"

\* the number of writes the client issues in a step: a write that lands
\* leaves the head of the outbox, a write that is issued joins its end
Issued(c) == Len(outbox[c])' - Len(outbox[c])

\* C21: one write per gesture.  While the pointer of a client is pressed on
\* a token, an order marker, a map marker or the drawing canvas, the client
\* issues no remote write; the pointer-up that ends a marker drag, a pen
\* stroke or a line issues exactly one.
C21_OneWritePerGesture ==
  [][ \A c \in Clients :
        /\ (pointer[c] \in {"token", "order", "marker", "canvas"} /\ pointer'[c] = pointer[c])
              => Issued(c) <= 0
        /\ (DragInProgress(c) /\ pointer'[c] = "up") => Issued(c) = 1 ]_vars


\* C30: the pen commit rule.  On the pointer-up of a pen gesture, if two or
\* more points were captured since the pointer-down, exactly one element is
\* appended to the drawing of the active map context, a path through the
\* captured points; if only the pointer-down point was captured, the
\* drawings stay as they were.
C30_PenCommit ==
  [][ \A c \in Clients, p \in XY :
        ( /\ pointer[c] = "canvas" /\ drawTool[c] = "pen" /\ drawLayer[c].drawing
          /\ canvasPointerUp(c, p) ) =>
            LET pts == drawLayer[c].pathPoints
                before == Els(drawings[c], activeMapId[c])
                after == Els(drawings'[c], activeMapId[c])
            IN  IF Len(pts) >= 2
                THEN /\ Len(after) = Len(before) + 1
                     /\ SubSeq(after, 1, Len(before)) = before
                     /\ after[Len(after)].type = "path"
                     /\ after[Len(after)].d = pts
                     /\ \A m \in MapCtxIds \ {activeMapId[c]} : Els(drawings'[c], m) = Els(drawings[c], m)
                ELSE drawings'[c] = drawings[c] ]_vars

\* a pen stroke of admin A was committed next to the stroke of the room
C30_Witness ==
  /\ pointer["A"] = "up"
  /\ drawLayer["A"].pathPoints = << >>
  /\ LET els == Els(drawings["A"], "main")
     IN  /\ Len(els) = 2
         /\ els[1].id = "e1"
         /\ els[2].type = "path" /\ Len(els[2].d) >= 2

\* ------------------------------------------------------------------------
\* Annotations of two map contexts: the room holds a sub-map and one
\* drawing element on each map; commander A edits the main map, commander
\* B opens the sub-map and edits it
\* ------------------------------------------------------------------------
ScopedDoc ==
  [maps |-> DEFAULT_MAPS \o << [id |-> "sub1", label |-> "Neue Karte", image |-> "", x |-> 1, y |-> 1] >>,
   drawings |-> [m \in {"main", "sub1"} |->
                   IF m = "main" THEN << [id |-> "e0", type |-> "line"] >>
                   ELSE << [id |-> "s0", type |-> "path"] >>]]

\* both clients have applied the snapshot of the document
InitScoped ==
  /\ role = RolesShared
  /\ board = [c \in Clients |-> InitBoard]
  /\ groupRoles = [c \in Clients |-> EmptyFn]
  /\ tokens = [c \in Clients |-> << >>]
  /\ orderMarkers = [c \in Clients |-> << >>]
  /\ aliveState = [c \in Clients |-> EmptyFn]
  /\ spawnState = [c \in Clients |-> EmptyFn]
  /\ maps = [c \in Clients |-> ScopedDoc.maps]
  /\ pois = [c \in Clients |-> << >>]
  /\ activeMapId = [c \in Clients |-> "main"]
  /\ notesText = [c \in Clients |-> ""]
  /\ notesTimer = [c \in Clients |-> << >>]
  /\ drawings = [c \in Clients |-> ScopedDoc.drawings]
  /\ drawTimer = [c \in Clients |-> << >>]
  /\ store = ScopedDoc
  /\ outbox = [c \in Clients |-> << >>]
  /\ calls = [c \in Clients |-> << >>]
  /\ snapPending = [c \in Clients |-> FALSE]
  /\ ops = 0
  /\ burst = [c \in Clients |-> NoBurst]
  /\ InitView

NextScoped ==
  \/ /\ drawTimer["B"] = << >>
     /\ outbox["B"] = << >>
     /\ Gesture(setActiveMapId("B", "sub1"))
  \/ \E c \in Clients, el \in DrawEls : Gesture(addDrawElement(c, el))
  \/ \E c \in Clients : Gesture(undoDrawElement(c))
  \/ Gesture(removeDrawElement("A", "e0"))
  \/ \E c \in Clients : Gesture(clearDrawings(c))
  \/ \E c \in Clients : Background(drawTimerFire(c))
  \/ \E c \in Clients : Background(onSnapshot(c))
  \/ \E c \in Clients : Background(Deliver(c))

SpecScoped == InitScoped /\ [][NextScoped]_vars

\* the drawing sequence of map context m in the room document
StoreEls(doc, m) == Els(FieldOr(doc, "drawings", EmptyFn), m)

\* one of the four annotation edits of client c
AnnotationEdit(c) ==
  \/ \E el \in DrawEls : addDrawElement(c, el)
  \/ \E id \in {"e0"} : removeDrawElement(c, id)
  \/ undoDrawElement(c)
  \/ clearDrawings(c)

\* C22: annotation edits are scoped to one map context.  An annotation
\* edit changes the local drawing sequence of the active map context only,
\* and when its write lands, the room document's drawing sequences of the
\* other map contexts, which another client may have edited meanwhile, are
\* what they were.
C22_ScopedToContext ==
  [][ \A c \in Clients :
        /\ (drawings'[c] # drawings[c] /\ AnnotationEdit(c)) =>
              \A m \in MapCtxIds \ {activeMapId[c]} :
                 Els(drawings'[c], m) = Els(drawings[c], m)
        /\ (store' # store /\ outbox[c] # << >> /\ DOMAIN Head(outbox[c]) = {"drawings"} /\ Deliver(c)) =>
              \A m \in MapCtxIds \ {activeMapId[c]} :
                 StoreEls(store', m) = StoreEls(store, m) ]_vars


\* ------------------------------------------------------------------------
\* Rapid local mutations: commander A toggles, picks spawns, places markers,
\* types notes and draws, and never applies a snapshot in between
\* ------------------------------------------------------------------------
InitCompose == InitWith(RolesShared)

NextCompose ==
  \/ Background(applyPlayerList("A", Roster))
  \/ Gesture(toggleAlive("A", "p1"))
  \/ Gesture(setSpawn("A", "p1", "spawn1"))
  \/ Gesture(setGroupColor("A", "g1", "3b82f6"))
  \/ Gesture(commitToken("A", "g1", [x |-> 0, y |-> 0], "main"))
  \/ Gesture(upsertOrderMarker("A", "g1", [x |-> 2, y |-> 2], "main"))
  \/ Gesture(moveMapMarker("A", "main", [x |-> 2, y |-> 2]))
  \/ Gesture(handleNotesChange("A", "a"))
  \/ Gesture(addDrawElement("A", [id |-> "e1", type |-> "path"]))
  \/ Background(notesTimerFire("A"))
  \/ Background(drawTimerFire("A"))
  \/ Background(Deliver("A"))

SpecCompose == InitCompose /\ [][NextCompose]_vars

\* the local copy of client c that field f of the document is written from
LocalField(c, f) ==
  CASE f = "groups" -> board[c].groups
    [] f = "columns" -> board[c].columns
    [] f = "tokens" -> tokens[c]
    [] f = "orderMarkers" -> orderMarkers[c]
    [] f = "aliveState" -> aliveState[c]
    [] f = "spawnState" -> spawnState[c]
    [] f = "maps" -> maps[c]
    [] f = "pois" -> pois[c]
    [] f = "notesText" -> notesText[c]
    [] f = "groupRoles" -> groupRoles[c]
    [] f = "drawings" -> drawings[c]

\* the write a client issued last
LastWrite(c) == outbox[c][Len(outbox[c])]

spawnGroups(c) == {board[c].groups[i].id : i \in {j \in 1..Len(board[c].groups) : board[c].groups[j].isSpawn}}

\* the <select> of a card: shown to the entity itself and to writers when
\* there is a spawn group; its options are "" and the spawn groups
selectSpawn(c, playerId, spawnId) ==
  /\ playerId = SelfOf[c] \/ canWrite(c)
  /\ spawnGroups(c) # {}
  /\ spawnId \in {""} \cup spawnGroups(c)
  /\ setSpawn(c, playerId, spawnId)

InitSpawn == InitWith(RolesShared)

NextSpawn ==
  \/ Background(applyPlayerList("A", Roster))
  \/ \E e \in {"p1", "p2"}, sid \in {""} \cup GroupIds : Gesture(selectSpawn("A", e, sid))
  \/ Gesture(toggleAlive("A", "p1"))
  \/ \E g \in {"g1", "spawn1"} : Gesture(deleteGroup("A", g))
  \/ \E c \in Clients : Background(onSnapshot(c))
  \/ Background(Deliver("A"))

SpecSpawn == InitSpawn /\ [][NextSpawn]_vars

\* an entry of the spawn preferences; the empty option of the <select> is
\* stored as "" and read as no preference
HasSpawnEntry(c, e) == e \in DOMAIN spawnState[c] /\ spawnState[c][e] # ""

\* C24: spawn preference validity.  In every local state, every entity with
\* a spawn preference prefers a group that is on the client's board and is a
\* spawn group.
C24_SpawnValid ==
  \A c \in Clients : \A e \in Entities :
    HasSpawnEntry(c, e) => spawnState[c][e] \in spawnGroups(c)


\* ------------------------------------------------------------------------
\* Entities on the board: commander A merges the roster and edits the
\* board; commander B, whose roster has not arrived, recolors a group
\* ------------------------------------------------------------------------
KeptOver == {"p2", "unassigned", "g1"}

InitKept == InitWith(RolesShared)

NextKept ==
  \/ Background(applyPlayerList("A", Roster))
  \/ \E o \in KeptOver : Gesture(onDragEnd("A", "p1", o))
  \/ Gesture(onDragEnd("A", "g1", "g2"))
  \/ Gesture(toggleAlive("A", "p1"))
  \/ Gesture(deleteGroup("A", "g1"))
  \/ Gesture(clearGroup("A", "g1"))
  \/ Gesture(setGroupColor("B", "g1", "3b82f6"))
  \/ \E c \in Clients : Background(onSnapshot(c))
  \/ \E c \in Clients : Background(Deliver(c))

SpecKept == InitKept /\ [][NextKept]_vars

\* the entity ids in the columns of client c's board
OnBoard(c) == {e \in Entities : Occurrences(board[c].columns, e) > 0}

\* C25: entities are never removed from the board.  An entity id that is in
\* some column of a client's local board is still in some column after every
\* step: a reassignment, toggleAlive, deleteGroup, clearGroup, a group
\* reorder or the application of a snapshot.
C25_EntitiesKept ==
  [][ \A c \in Clients : OnBoard(c) \subseteq OnBoard(c)' ]_vars


\* ------------------------------------------------------------------------
\* The viewer's own entity: viewer B (entity p2) toggles and drags entities
\* and groups, commander A moves B's entity too
\* ------------------------------------------------------------------------
SelfOver == {"g1", "p1", "unassigned"}

InitSelf == InitWith(RolesBoard)

NextSelf ==
  \/ \E c \in Clients : Background(applyPlayerList(c, Roster))
  \/ \E e \in Entities : Gesture(toggleAlive("B", e))
  \/ \E e \in Entities, o \in SelfOver : Gesture(onDragEnd("B", e, o))
  \/ Gesture(onDragEnd("B", "g1", "g2"))
  \/ Gesture(onDragEnd("A", "p2", "g2"))
  \/ \E c \in Clients : Background(onSnapshot(c))
  \/ \E c \in Clients : Background(Deliver(c))

SpecSelf == InitSelf /\ [][NextSelf]_vars

\* client c issues no write in the step
NoWrite(c) == outbox'[c] = outbox[c]

\* client c issues one full write in the step, carrying its board
WritesBoard(c) ==
  /\ Len(outbox'[c]) = Len(outbox[c]) + 1
  /\ LastWrite(c)'.columns = board'[c].columns

\* C27: the self exception to role gating.  For a viewer, toggleAlive and
\* a reassignment of another entity change nothing locally and issue no
\* write; toggleAlive of the viewer's own entity flips its alive state and
\* a drop of the own entity on another group moves it there, each with one
\* write; and a viewer's group drag never changes the groups sequence.
C27_SelfException ==
  [][ \A c \in Clients :
        role[c] = "viewer" =>
          LET self == SelfOf[c]
              wasDead == self \in DOMAIN aliveState[c] /\ aliveState[c][self] = "dead"
          IN  /\ \A e \in Entities \ {self} :
                   (toggleAlive(c, e) \/ \E o \in SelfOver : onDragEnd(c, e, o)) =>
                      LocalState(c)' = LocalState(c) /\ NoWrite(c)
              /\ (Len(outbox[c]) < MaxInflight /\ toggleAlive(c, self)) =>
                    /\ self \in DOMAIN aliveState'[c]
                    /\ aliveState'[c][self] = (IF wasDead THEN "alive" ELSE "dead")
                    /\ WritesBoard(c)
              /\ \A o \in GroupIds :
                   ( /\ Len(outbox[c]) < MaxInflight
                     /\ o \in groupIdsOf(board[c])
                     /\ findContainer(board[c].columns, self) \notin {{}, {o}}
                     /\ onDragEnd(c, self, o) ) =>
                        /\ findContainer(board'[c].columns, self) = {o}
                        /\ WritesBoard(c)
              /\ \A a \in GroupIds, o \in GroupIds :
                   onDragEnd(c, a, o) => board'[c].groups = board[c].groups /\ NoWrite(c) ]_vars

\* the viewer's own toggle and own reassignment both took effect: B's
\* entity is dead on B's board and stands in g1, where B dropped it
C27_Witness ==
  /\ role["B"] = "viewer"
  /\ "p2" \in DOMAIN aliveState["B"] /\ aliveState["B"]["p2"] = "dead"
  /\ findContainer(board["B"].columns, "p2") = {"g1"}
  /\ "columns" \in DOMAIN store /\ "p2" \in Range(Col(store.columns, "g1"))


\* ------------------------------------------------------------------------
\* TokenPlacerPanel: arm a group, then click on the map
\* ------------------------------------------------------------------------
PlaceModes == {"token", "order"}

\* a click position relative to the image, not clamped: the second one lies
\* to the right of the image
ClickPoints == {[x |-> 2, y |-> 2], [x |-> 3, y |-> 0]}

\* x >= 0 && x <= 1 && y >= 0 && y <= 1
InImage(p) == p.x >= 0 /\ p.x <= 2 /\ p.y >= 0 /\ p.y <= 2

\* const tactical = groups.filter((g) => g.id !== "unassigned" && !g.isSpawn)
tactical(c) ==
  {board[c].groups[i].id : i \in {j \in 1..Len(board[c].groups) :
      board[c].groups[j].id # "unassigned" /\ ~board[c].groups[j].isSpawn}}

\* a click changes the placer and nothing else of the view
PlacerOnly(c, a) ==
  /\ armed' = [armed EXCEPT ![c] = a]
  /\ UNCHANGED << drawTool, zoomMap, drawLayer, pointer >>

\* the token button and the order button of a group: arm, or disarm when
\* the same button is armed.  The panel is rendered for writers only.
armClick(c, gId, mode) ==
  /\ canWrite(c)
  /\ gId \in tactical(c)
  /\ PlacerOnly(c, IF armed[c] = [gId |-> gId, mode |-> mode] THEN Disarmed
                   ELSE [gId |-> gId, mode |-> mode])
  /\ UNCHANGED pvars

\* the Abbrechen button, shown while armed
cancelClick(c) ==
  /\ canWrite(c)
  /\ armed[c] # Disarmed
  /\ PlacerOnly(c, Disarmed)
  /\ UNCHANGED pvars

\* a click handler that places wherever the click lands
windowClick_noBounds(c, p) ==
  /\ canWrite(c)
  /\ IF armed[c] = Disarmed THEN UNCHANGED pvars /\ UNCHANGED viewVars
     ELSE /\ IF armed[c].mode = "token"
               THEN upsertToken(c, armed[c].gId, p, activeMapId[c])
               ELSE upsertOrderMarker(c, armed[c].gId, p, activeMapId[c])
          /\ PlacerOnly(c, Disarmed)

\* the click listener on window of the mounted panel
windowClick(c, p) ==
  /\ canWrite(c)
  /\ IF armed[c] = Disarmed THEN UNCHANGED pvars /\ UNCHANGED viewVars
     ELSE IF InImage(p)
     THEN /\ IF armed[c].mode = "token"
               THEN upsertToken(c, armed[c].gId, p, activeMapId[c])
               ELSE upsertOrderMarker(c, armed[c].gId, p, activeMapId[c])
          /\ PlacerOnly(c, Disarmed)
     ELSE UNCHANGED pvars /\ UNCHANGED viewVars

InitPlacer == InitRoom(RolesGesture, GestureDoc)

NextPlacer ==
  \/ \E g \in {"g1", "g2"}, mode \in PlaceModes : PointerEvent(armClick("A", g, mode))
  \/ PointerEvent(cancelClick("A"))
  \/ \E p \in ClickPoints : PointerDown(windowClick("A", p))
  \/ Gesture(setActiveMapId("A", "sub1"))
  \/ Background(onSnapshot("A"))
  \/ Background(Deliver("A"))

SpecPlacer == InitPlacer /\ [][NextPlacer]_vars

\* the markers of a list other than the one of the group on the map
OtherMarkers(ms, gId, mapId) == SelectSeq(ms, LAMBDA m : ~(m.groupId = gId /\ m.mapId = mapId))

\* the list holds one marker of the group on the map, and it is at p
PlacedAt(ms, gId, mapId, p) ==
  /\ Len(SelectSeq(ms, LAMBDA m : m.groupId = gId /\ m.mapId = mapId)) = 1
  /\ \E k \in 1..Len(ms) : ms[k] = [groupId |-> gId, x |-> p.x, y |-> p.y, mapId |-> mapId]

\* C28: placement by click.  A click of an armed placer inside the image
\* leaves exactly one marker of the armed kind for the armed group on the
\* active map, at the click, leaves every other marker as it was, issues
\* one write and disarms the placer; a click outside the image, or a click
\* while disarmed, changes no marker, issues no write and leaves the placer
\* as it is.
C28_PlacerMachine ==
  [][ \A c \in Clients, p \in ClickPoints :
        (canWrite(c) /\ windowClick(c, p)) =>
          LET a == armed[c]
              m == activeMapId[c]
          IN  IF a # Disarmed /\ InImage(p)
              THEN /\ armed'[c] = Disarmed
                   /\ Len(outbox'[c]) = Len(outbox[c]) + 1
                   /\ IF a.mode = "token"
                        THEN /\ PlacedAt(tokens'[c], a.gId, m, p)
                             /\ OtherMarkers(tokens'[c], a.gId, m) = OtherMarkers(tokens[c], a.gId, m)
                             /\ orderMarkers'[c] = orderMarkers[c]
                        ELSE /\ PlacedAt(orderMarkers'[c], a.gId, m, p)
                             /\ OtherMarkers(orderMarkers'[c], a.gId, m)
                                  = OtherMarkers(orderMarkers[c], a.gId, m)
                             /\ tokens'[c] = tokens[c]
              ELSE /\ armed'[c] = a
                   /\ tokens'[c] = tokens[c]
                   /\ orderMarkers'[c] = orderMarkers[c]
                   /\ NoWrite(c) ]_vars

\* g2 had no token; the placer was armed for it and a click on the image
\* placed one and disarmed the placer
C28_Witness ==
  /\ armed["A"] = Disarmed
  /\ PlacedAt(tokens["A"], "g2", "main", [x |-> 2, y |-> 2])
  /\ PlacedAt(tokens["A"], "g1", "main", [x |-> 0, y |-> 0])


\* ------------------------------------------------------------------------
\* The viewport: admin A presses the background, a token, an order marker
\* or a sub-map marker, moves, turns the wheel and releases; a second
\* pointer (a second finger) may press the background while a marker is held
\* ------------------------------------------------------------------------
\* pointer-down of a second pointer on the background: the container's
\* onPointerDown runs while the first pointer holds a marker
secondBgDown(c, p) ==
  /\ pointer[c] \in {"token", "order", "marker"}
  /\ ZoomOnly(c, IF bgOff(c) THEN zoomMap[c] ELSE onBgDown(c, p), pointer[c])
  /\ NoOp

InitViewport == InitRoom(RolesGesture, GestureDoc)

NextViewport ==
  \/ \E p \in XY : PointerDown(bgPointerDown("A", p))
  \/ PointerDown(tokenPointerDown("A", "g1", [x |-> 0, y |-> 0]))
  \/ PointerDown(orderPointerDown("A", "g1", [x |-> 2, y |-> 2]))
  \/ PointerDown(markerPointerDown("A", "sub1"))
  \/ \E p \in XY : PointerDown(secondBgDown("A", p))
  \/ \E dy \in WheelDeltas : PointerDown(onWheel("A", dy))
  \/ \E p \in XY : PointerEvent(containerMove("A", p))
  \/ PointerEvent(containerUp("A"))
  \/ Background(onSnapshot("A"))
  \/ Background(Deliver("A"))

SpecViewport == InitViewport /\ [][NextViewport]_vars

\* the drags of ZoomableMap that are set
DragsSet(c) ==
  {d \in {"tokenDrag", "markerDrag", "orderMarkerDrag"} : zoomMap[c][d] # None}

\* at most one drag is set at a time
OneDrag == \A c \in Clients : Cardinality(DragsSet(c)) <= 1

\* C29: pan and marker drag are mutually exclusive.  Background panning is
\* never active together with a token, order-marker or map-marker drag; no
\* offset change is applied while a drag is active; and pointer-up returns
\* the viewport to the state with no panning and no drag.
C29_PanDragExclusive ==
  /\ [](\A c \in Clients : ~(zoomMap[c].panning /\ DragsSet(c) # {}))
  /\ [][ \A c \in Clients :
           /\ DragsSet(c) # {} => zoomMap'[c].offset = zoomMap[c].offset
           /\ (pointer[c] # "up" /\ containerUp(c)) =>
                 ~zoomMap'[c].panning /\ DragsSet(c)' = {} ]_vars


\* ------------------------------------------------------------------------
\* The structure of the board: commander A merges the roster, adds, deletes,
\* clears and reorders groups and toggles p1; commander B deletes g2
\* ------------------------------------------------------------------------
StructTargets == {"g1", "n1"}

InitStruct == InitWith(RolesShared)

NextStruct ==
  \/ Background(applyPlayerList("A", Roster))
  \/ Gesture(addGroup("A", FALSE))
  \/ \E g \in StructTargets : Gesture(g \in groupIdsOf(board["A"]) /\ deleteGroup("A", g))
  \/ Gesture("g1" \in groupIdsOf(board["A"]) /\ clearGroup("A", "g1"))
  \/ Gesture(onDragEnd("A", "g2", "unassigned"))
  \/ Gesture(toggleAlive("A", "p1"))
  \/ Gesture(deleteGroup("B", "g2"))
  \/ \E c \in Clients : Background(onSnapshot(c))
  \/ \E c \in Clients : Background(Deliver(c))

SpecStruct == InitStruct /\ [][NextStruct]_vars

\* C31: the structural board invariant.  On every client's board the group
\* unassigned is in groups exactly once, no two groups have the same id,
\* and the keys of columns are exactly the ids of the groups.
C31_BoardStructure ==
  \A c \in Clients :
    LET ids == GroupOrder(board[c].groups)
    IN  /\ Count(ids, "unassigned") = 1
        /\ \A i \in 1..Len(ids), j \in 1..Len(ids) : ids[i] = ids[j] => i = j
        /\ DOMAIN board[c].columns = Range(ids)

\* A added the group n1 and deleted g1; B took A's board from a snapshot
\* and deleted g2
C31_Witness ==
  /\ groupIdsOf(board["A"]) = {"unassigned", "g2", "g3", "spawn1", "n1"}
  /\ groupIdsOf(board["B"]) = {"unassigned", "g3", "spawn1", "n1"}
  /\ "n1" \in DOMAIN board["B"].columns


\* ------------------------------------------------------------------------
\* Clearing groups: the room holds p3 in unassigned and p1, p2 in g1;
\* commander A clears groups and moves p3, commander B moves p1
\* ------------------------------------------------------------------------
ClearTargets == {"unassigned", "g1", "g2"}

InitClear == InitRoom(RolesShared, CascadeDoc)

NextClear ==
  \/ \E g \in ClearTargets : Gesture(clearGroup("A", g))
  \/ Gesture(onDragEnd("A", "p3", "g1"))
  \/ Gesture(onDragEnd("B", "p1", "g2"))
  \/ \E c \in Clients : Background(onSnapshot(c))
  \/ \E c \in Clients : Background(Deliver(c))

SpecClear == InitClear /\ [][NextClear]_vars

RefGroups == {"g1", "g2"}

InitRefs == InitRoom(RolesGesture, GestureDoc)

NextRefs ==
  \/ \E g \in RefGroups : Gesture(deleteGroup("A", g))
  \/ \E g \in RefGroups : Gesture(g \in tactical("A") /\ upsertToken("A", g, [x |-> 2, y |-> 2], "main"))
  \/ \E g \in RefGroups : Gesture(g \in tactical("A") /\ upsertOrderMarker("A", g, [x |-> 0, y |-> 0], "main"))
  \/ Gesture(visibleToken("A", "g1") /\ removeToken("A", "g1", "main"))
  \/ Gesture(visibleOrderMarker("A", "g1") /\ removeOrderMarker("A", "g1", "main"))
  \/ Background(onSnapshot("A"))
  \/ Background(Deliver("A"))

SpecRefs == InitRefs /\ [][NextRefs]_vars

\* C33: marker referential integrity.  In every local state of a client,
\* every token and every order marker names a group that is in the groups
\* of the client's board; so after deleteGroup(g) no token and no order
\* marker of g remains.
C33_MarkersReferGroups ==
  \A c \in Clients :
    /\ \A k \in 1..Len(tokens[c]) : tokens[c][k].groupId \in groupIdsOf(board[c])
    /\ \A k \in 1..Len(orderMarkers[c]) : orderMarkers[c][k].groupId \in groupIdsOf(board[c])


\* ------------------------------------------------------------------------
\* Where the dead go: the room holds two spawn groups; commander A chooses
\* a spawn group for p1, deletes spawn groups and toggles entities;
\* commander B toggles the own entity
\* ------------------------------------------------------------------------
SpawnIds == {"spawn1", "n1"}

InitResolve == InitRoom(RolesShared, SpawnDoc)

NextResolve ==
  \/ Gesture(setSpawn("A", "p1", "n1"))
  \/ \E g \in SpawnIds : Gesture(g \in groupIdsOf(board["A"]) /\ deleteGroup("A", g))
  \/ \E pl \in {"p1", "p3"} : Gesture(toggleAlive("A", pl))
  \/ Gesture(toggleAlive("B", "p2"))
  \/ \E c \in Clients : Background(onSnapshot(c))
  \/ \E c \in Clients : Background(Deliver(c))

SpecResolve == InitResolve /\ [][NextResolve]_vars

\* the spawn preference of the entity at the client, "" when it has none
Preference(c, pl) == IF pl \in DOMAIN spawnState[c] THEN spawnState[c][pl] ELSE ""

\* s is the first spawn group of the client's board, in groups order
FirstSpawn(c, s) ==
  \E i \in 1..Len(board[c].groups) :
     /\ board[c].groups[i].id = s
     /\ board[c].groups[i].isSpawn
     /\ \A j \in 1..(i-1) : ~board[c].groups[j].isSpawn

\* the fields of the document pushAll writes
FullDocument ==
  {"groups", "columns", "tokens", "orderMarkers", "aliveState", "spawnState",
   "maps", "pois", "notesText", "groupRoles", "drawings"}

\* C34: spawn target resolution on death.  When an alive entity is toggled
\* to dead: without a spawn preference it is moved to the first group in
\* groups order that is a spawn group; without a preference and without
\* any spawn group, or with a preference that names no group of the board,
\* the board is left unchanged; in every case the alive flag becomes dead
\* and exactly one write of the full document is issued.
C34_SpawnResolution ==
  [][ \A c \in Clients, pl \in {"p1", "p2", "p3"} :
        ( /\ MayToggle(c, pl) /\ ~IsDead(c, pl)
          /\ outbox'[c] # outbox[c]
          /\ toggleAlive(c, pl) ) =>
           LET cols == board[c].columns
               sp == Preference(c, pl)
           IN  /\ pl \in DOMAIN aliveState'[c]
               /\ aliveState'[c] = Put(aliveState[c], pl, "dead")
               /\ Len(outbox'[c]) = Len(outbox[c]) + 1
               /\ SubSeq(outbox'[c], 1, Len(outbox[c])) = outbox[c]
               /\ DOMAIN outbox'[c][Len(outbox'[c])] = FullDocument
               /\ \A s \in GroupIds :
                    (sp = "" /\ FirstSpawn(c, s)) =>
                       /\ board'[c].groups = board[c].groups
                       /\ DOMAIN board'[c].columns = DOMAIN cols \cup {s}
                       /\ board'[c].columns[s] = << pl >> \o Without(Col(cols, s), pl)
                       /\ \A g \in DOMAIN cols \ {s} :
                             board'[c].columns[g] = Without(cols[g], pl)
               /\ ( \/ sp = "" /\ ~\E s \in GroupIds : FirstSpawn(c, s)
                    \/ sp # "" /\ sp \notin groupIdsOf(board[c]) ) =>
                       board'[c] = board[c]
    ]_vars

\* p1 prefers n1, n1 was deleted, and p1 died where it stood: dead, and
\* still in the column of g1
C34_Witness ==
  /\ Preference("A", "p1") = "n1"
  /\ "n1" \notin groupIdsOf(board["A"])
  /\ IsDead("A", "p1")
  /\ Col(board["A"].columns, "g1") = << "p2", "p1" >>


\* ------------------------------------------------------------------------
\* Writes of different slices by two clients: the room holds a board and a
\* token, and both commanders have applied its snapshot; B places tokens,
\* A renames a group, chooses a spawn group and toggles the own entity
\* ------------------------------------------------------------------------
CrossDoc ==
  [groups |-> DEFAULT_GROUPS,
   columns |-> [g \in {DEFAULT_GROUPS[i].id : i \in 1..Len(DEFAULT_GROUPS)} |->
                  IF g = "g1" THEN << "p1", "p2" >> ELSE << >>],
   tokens |-> << [groupId |-> "g1", x |-> 0, y |-> 0, mapId |-> "main"] >>]

InitCross ==
  /\ role = RolesShared
  /\ board = [c \in Clients |-> [groups |-> CrossDoc.groups, columns |-> CrossDoc.columns]]
  /\ groupRoles = [c \in Clients |-> EmptyFn]
  /\ tokens = [c \in Clients |-> CrossDoc.tokens]
  /\ orderMarkers = [c \in Clients |-> << >>]
  /\ aliveState = [c \in Clients |-> EmptyFn]
  /\ spawnState = [c \in Clients |-> EmptyFn]
  /\ maps = [c \in Clients |-> DEFAULT_MAPS]
  /\ pois = [c \in Clients |-> << >>]
  /\ activeMapId = [c \in Clients |-> "main"]
  /\ notesText = [c \in Clients |-> ""]
  /\ notesTimer = [c \in Clients |-> << >>]
  /\ drawings = [c \in Clients |-> EmptyFn]
  /\ drawTimer = [c \in Clients |-> << >>]
  /\ store = CrossDoc
  /\ outbox = [c \in Clients |-> << >>]
  /\ calls = [c \in Clients |-> << >>]
  /\ snapPending = [c \in Clients |-> FALSE]
  /\ ops = 0
  /\ burst = [c \in Clients |-> NoBurst]
  /\ InitView

NextCross ==
  \/ \E g \in {"g1", "g2"} : Gesture(commitToken("B", g, [x |-> 2, y |-> 2], "main"))
  \/ Gesture(renameGroup("A", "g1", "L0"))
  \/ Gesture(setSpawn("A", "p1", "spawn1"))
  \/ Gesture(toggleAlive("A", "p1"))
  \/ \E c \in Clients : Background(onSnapshot(c))
  \/ \E c \in Clients : Background(Deliver(c))

SpecCross == InitCross /\ [][NextCross]_vars

\* C35: cross-slice non-interference between clients.  When the token
\* write of one client has landed and another client, which has not yet
\* applied the snapshot carrying it, renames a group, chooses a spawn group
\* or toggles an entity, the landing of that client's write leaves the
\* tokens of the room document as the first client wrote them.
C35_CrossSlice ==
  [][ \A c \in Clients :
        ( /\ store' # store
          /\ outbox[c] # << >>
          /\ DOMAIN Head(outbox[c]) # {"tokens"}
          /\ Deliver(c) ) =>
            FieldOr(store', "tokens", << >>) = FieldOr(store, "tokens", << >>) ]_vars


\* ------------------------------------------------------------------------
\* A snapshot between an edit of the notes and its write
\* ------------------------------------------------------------------------
\* C36: snapshot during a pending notes debounce.  When a snapshot whose
\* notesText differs from the local text is applied while the notes timer
\* of the client is pending, the local text becomes the snapshot's text
\* and the timer stays pending, nothing being written; when the timer
\* fires it issues exactly one write, of the text of the client's last
\* edit, whatever the local text is by then.
C36_SnapshotDuringDebounce ==
  [][ \A c \in Clients :
        /\ ( /\ notesTimer[c] # << >>
             /\ snapPending[c]
             /\ "notesText" \in DOMAIN store
             /\ store.notesText # notesText[c]
             /\ onSnapshot(c) ) =>
               /\ notesText'[c] = store.notesText
               /\ notesTimer'[c] = notesTimer[c]
               /\ outbox'[c] = outbox[c]
        /\ ( /\ notesTimer[c] # << >>
             /\ outbox'[c] # outbox[c]
             /\ notesTimerFire(c) ) =>
               /\ outbox'[c] = Append(outbox[c], [notesText |-> burst[c].last])
               /\ notesTimer'[c] = << >>
               /\ notesText'[c] = notesText[c] ]_vars

\* A typed "a"; before the timer fired, the snapshot of B's "b" was applied:
\* A shows "b" and the timer that will write "a" is still pending
C36_Witness ==
  /\ notesTimer["A"] = << "a" >>
  /\ burst["A"].last = "a"
  /\ notesText["A"] = "b"
  /\ ~snapPending["A"]
  /\ store # NoDoc /\ "notesText" \in DOMAIN store /\ store.notesText = "b"

=============================================================================
